---- MODULE Spec2Model ----
(***************************************************************************)
(* A model of the Microsoft Teams chat MCP server: the ChatService         *)
(* variants (src/src/services/chatService.ts, src/unnamed/part_006), the   *)
(* REST handlers (src/unnamed/part_005), the MCP tool handlers             *)
(* (src/unnamed/part_000, src/src/tools/chatTools.ts) and the Graph        *)
(* requests they send.                                                     *)
(*                                                                         *)
(* One invocation runs at a time (pc = "idle" between invocations).  Each  *)
(* Graph request is appended to reqs when it is sent; Graph's answer is a  *)
(* nondeterministic choice made by the action that receives it.            *)
(*                                                                         *)
(* Conventions: an optional value is <<>> (absent) or <<v>> (present); a   *)
(* text is a sequence of one-character strings; a JS NaN is modelled as    *)
(* the absent number (both are falsy and neither is ever sent).            *)
(***************************************************************************)
EXTENDS Integers, Sequences, FiniteSets, TLC

VARIABLES
    pc,        \* position of the running invocation, "idle" when none runs
    op,        \* entry point of the running invocation
    args,      \* its inputs
    local,     \* its local variables
    reqs,      \* Graph requests sent by it, in the order sent
    result,    \* <<>> while running, then what it returned or threw
    warnings,  \* console.warn lines written by it
    now        \* the wall clock

vars == <<pc, op, args, local, reqs, result, warnings, now>>

\* ------------------------------------------------------------------ bounds

MaxMsgs == 3      \* messages in one Graph page
MaxClock == 2     \* wall-clock ticks

\* ------------------------------------------------------------ JS helpers

None == <<>>
Some(v) == <<v>>
IsSome(o) == Len(o) = 1
IsNone(o) == Len(o) = 0
Get(o) == o[1]

\* JS truthiness of an optional number / text / array.
TruthyNum(o) == IsSome(o) /\ Get(o) # 0
TruthyStr(o) == IsSome(o) /\ Len(Get(o)) > 0

Min(a, b) == IF a <= b THEN a ELSE b

RECURSIVE Concat(_)
Concat(ss) == IF Len(ss) = 0 THEN <<>> ELSE Head(ss) \o Concat(Tail(ss))

\* Array.prototype.join on an array of texts.
RECURSIVE Join(_, _)
Join(parts, sep) ==
    IF Len(parts) = 0 THEN <<>>
    ELSE IF Len(parts) = 1 THEN parts[1]
    ELSE parts[1] \o sep \o Join(Tail(parts), sep)

\* encodeURIComponent: letters, digits and - _ . ! ~ * ' ( ) are kept,
\* every other character is percent-encoded.
EncodeChar(c) ==
    CASE c = "@" -> <<"%", "4", "0">>
      [] c = " " -> <<"%", "2", "0">>
      [] c = "/" -> <<"%", "2", "F">>
      [] OTHER -> <<c>>

RECURSIVE encodeURIComponent(_)
encodeURIComponent(s) ==
    IF Len(s) = 0 THEN <<>> ELSE EncodeChar(Head(s)) \o encodeURIComponent(Tail(s))

\* String.prototype.replace(/'/g, "''")
RECURSIVE replaceQuotes(_)
replaceQuotes(s) ==
    IF Len(s) = 0 THEN <<>>
    ELSE (IF Head(s) = "'" THEN <<"'", "'">> ELSE <<Head(s)>>) \o replaceQuotes(Tail(s))

\* String.prototype.includes
includes(s, t) ==
    \E i \in 0..(Len(s) - Len(t)) : SubSeq(s, i + 1, i + Len(t)) = t

\* new Date(x).toISOString(): the canonical form of a valid date, a RangeError
\* for an invalid one.  Dates are tokens; "bad" is not a date.
ValidDate(d) == d # "bad"
toISOString(d) ==
    CASE d = "2024-01-01" -> "2024-01-01T00:00:00.000Z"
      [] d = "2024-02-01T00:00:00Z" -> "2024-02-01T00:00:00.000Z"
      [] OTHER -> d

\* ------------------------------------------------------------------ Graph

ErrorStatuses == {400, 401, 403, 404, 429, 500}

GraphCode(s) ==
    CASE s = 401 -> "Unauthorized"
      [] s = 403 -> "Forbidden"
      [] s = 404 -> "NotFound"
      [] s = 400 -> "TenantNotFound"
      [] s = 429 -> "TooManyRequests"
      [] OTHER -> "InternalServerError"

\* A GraphError as the client library throws it.
GraphError(s) ==
    [ok |-> FALSE, statusCode |-> Some(s), code |-> Some(GraphCode(s)),
     message |-> <<GraphCode(s)>>]

GraphFailures == { GraphError(s) : s \in ErrorStatuses }

\* A request to Graph.  path is the resource, the rest the OData query and body.
NoQuery ==
    [top |-> None, skip |-> None, filter |-> None, orderby |-> None,
     select |-> None, expand |-> None]

Request(method, path, query, body) ==
    [method |-> method, path |-> path, query |-> query, body |-> body]

\* new Error(message): what the service layers throw.  It carries no status.
JsError(message) == [ok |-> FALSE, statusCode |-> None, code |-> None, message |-> message]

Returned(v) == [ok |-> TRUE, value |-> v]

\* --------------------------------------------------------------- messages

ReadFlags == {"true", "false", "absent"}

\* A message of a page: its position in the page as id, and its isRead field.
Message(i, r) == [id |-> i, isRead |-> r]

RECURSIVE PagesOfLen(_)
PagesOfLen(n) ==
    IF n = 0 THEN {<<>>}
    ELSE { Append(p, Message(n, r)) : p \in PagesOfLen(n - 1), r \in ReadFlags }

MessagePages == UNION { PagesOfLen(n) : n \in 0..MaxMsgs }

NextLink == <<"n", "e", "x", "t">>

\* The successful answers to a message listing.
MessageResponses ==
    UNION { { [ok |-> TRUE, body |-> [value |-> v, count |-> c, nextLink |-> n]] :
                c \in {None, Some(Len(v) + 2)}, n \in {None, Some(NextLink)} } :
            v \in MessagePages }

\* A successful answer whose body has neither a value array nor @odata.count.
ValuelessResponses == { [ok |-> TRUE, body |-> [nextLink |-> None]] }

\* The body has a value property.
hasValue(body) == "value" \in DOMAIN body

\* The TypeError of calling a method of an absent value array.
TypeError(method) ==
    JsError(<<"Cannot read properties of undefined (reading '", method, "')">>)

\* msg.isRead as a JS truth value.
IsReadTruthy(m) == m.isRead = "true"

\* Array.prototype.filter with the isRead predicate of getChatMessages.
filterByIsRead(value, isRead) ==
    SelectSeq(value, LAMBDA m : IF isRead THEN IsReadTruthy(m) ELSE ~IsReadTruthy(m))

\* ------------------------------------------- ChatService.getChatMessages

MaxMessagePageSize == 1000
DefaultPageSize == 50

NoMessageOptions ==
    [top |-> None, skip |-> None, from |-> None, isRead |-> None,
     importance |-> None, contains |-> None, afterDateTime |-> None,
     beforeDateTime |-> None, orderBy |-> None, select |-> None, expand |-> None]

DefaultOrderBy == <<"createdDateTime desc">>

Me == <<"m", "e">>

\* The sender the from clause names: 'me' stands for the configured UPN.
fromValue(options, config) ==
    IF Get(options.from) = Me
    THEN (IF TruthyStr(config.userPrincipalName) THEN Get(config.userPrincipalName) ELSE Me)
    ELSE Get(options.from)

fromClause(options, config) ==
    <<"from/emailAddress/address eq '">>
        \o encodeURIComponent(fromValue(options, config)) \o <<"'">>

importanceClause(options) == <<"importance eq '", Get(options.importance), "'">>

afterClause(options) == <<"createdDateTime ge ", toISOString(Get(options.afterDateTime))>>

beforeClause(options) == <<"createdDateTime le ", toISOString(Get(options.beforeDateTime))>>

containsClause(options) ==
    <<"contains(body/content, '">> \o replaceQuotes(Get(options.contains)) \o <<"')">>

\* The filterParts array: one clause per truthy predicate, pushed in this order.
filterParts(options, config) ==
    (IF TruthyStr(options.from) THEN <<fromClause(options, config)>> ELSE <<>>)
    \o (IF IsSome(options.importance) THEN <<importanceClause(options)>> ELSE <<>>)
    \o (IF IsSome(options.afterDateTime) THEN <<afterClause(options)>> ELSE <<>>)
    \o (IF IsSome(options.beforeDateTime) THEN <<beforeClause(options)>> ELSE <<>>)
    \o (IF TruthyStr(options.contains) THEN <<containsClause(options)>> ELSE <<>>)

\* new Date(x).toISOString() throws a RangeError on an invalid date.
invalidDate(options) ==
    \/ IsSome(options.afterDateTime) /\ ~ValidDate(Get(options.afterDateTime))
    \/ IsSome(options.beforeDateTime) /\ ~ValidDate(Get(options.beforeDateTime))

\* $top of a message listing: the caller's top capped, or the default.
messagesTop(options) ==
    IF TruthyNum(options.top)
    THEN Min(Get(options.top), MaxMessagePageSize)
    ELSE DefaultPageSize

\* The request getChatMessages builds before it awaits request.get().
getChatMessagesRequest(chatId, options, config) ==
    Request("GET", <<"chats", chatId, "messages">>,
        [top |-> Some(messagesTop(options)),
         skip |-> IF TruthyNum(options.skip) THEN options.skip ELSE None,
         filter |-> IF Len(filterParts(options, config)) > 0
                    THEN Some(Join(filterParts(options, config), <<" and ">>))
                    ELSE None,
         orderby |-> IF TruthyStr(options.orderBy) THEN options.orderBy
                     ELSE Some(DefaultOrderBy),
         select |-> IF TruthyStr(options.select) THEN options.select ELSE None,
         expand |-> IF TruthyStr(options.expand) THEN options.expand ELSE None],
        None)

\* (mutant) the count Graph reported is kept after filtering.
filteredCount_stale(body, filtered) == body.count

\* @odata.count after the client-side isRead filter.
filteredCount(body, filtered) ==
    IF IsSome(body.count) THEN Some(Len(filtered)) ELSE None

\* What getChatMessages returns or throws once Graph has answered.
getChatMessagesReturn(options, response) ==
    IF ~response.ok
    THEN JsError(<<"Failed to get chat messages: ">> \o response.message)
    ELSE IF IsSome(options.isRead) /\ ~hasValue(response.body)
    THEN JsError(<<"Failed to get chat messages: ">> \o TypeError("filter").message)
    ELSE IF IsSome(options.isRead)
    THEN LET filtered == filterByIsRead(response.body.value, Get(options.isRead))
         IN Returned([response.body EXCEPT
                !.value = filtered,
                !.count = filteredCount(response.body, filtered)])
    ELSE Returned(response.body)

\* ------------------------------------------------ ChatService.getMessages

Digits == <<"0", "1", "2", "3", "4", "5", "6", "7", "8", "9">>
IsDigit(c) == \E d \in 1..10 : Digits[d] = c
DigitValue(c) == (CHOOSE d \in 1..10 : Digits[d] = c) - 1

RECURSIVE DigitsPrefix(_)
DigitsPrefix(s) ==
    IF Len(s) = 0 \/ ~IsDigit(Head(s)) THEN <<>> ELSE <<Head(s)>> \o DigitsPrefix(Tail(s))

RECURSIVE DigitsValue(_)
DigitsValue(s) ==
    IF Len(s) = 0 THEN 0
    ELSE DigitsValue(SubSeq(s, 1, Len(s) - 1)) * 10 + DigitValue(s[Len(s)])

\* parseInt(s, 10): the value of the leading digits, NaN (absent) without any.
parseInt(s) ==
    IF Len(DigitsPrefix(s)) = 0 THEN None ELSE Some(DigitsValue(DigitsPrefix(s)))

\* The request getMessages builds: every option is copied as given.
getMessagesRequest(chatId, options) ==
    Request("GET", <<"chats", chatId, "messages">>,
        [top |-> IF TruthyNum(options.top) THEN options.top ELSE None,
         skip |-> IF TruthyNum(options.skip) THEN options.skip ELSE None,
         filter |-> IF TruthyStr(options.filter) THEN options.filter ELSE None,
         orderby |-> IF TruthyStr(options.orderBy) THEN options.orderBy ELSE None,
         select |-> options.select,
         expand |-> options.expand],
        None)

getMessagesReturn(response) ==
    IF ~response.ok
    THEN JsError(<<"Failed to fetch messages: ">> \o response.message)
    ELSE Returned(response.body.value)

NoGetMessagesOptions ==
    [top |-> None, skip |-> None, filter |-> None, orderBy |-> None,
     select |-> None, expand |-> None]

\* --------------------------------------------------------------- inputs

MsgChatIds == {"c1"}

Upn == <<"b", "@", "x">>

ServiceConfigs ==
    { [accessToken |-> <<"t">>, userPrincipalName |-> u] : u \in {None, Some(Upn)} }

TextInputs == {None, Some(<<>>), Some(Me), Some(<<"o", "'", "b">>), Some(<<"a", "@", "b">>)}

DateInputs == {None, Some("2024-01-01"), Some("bad")}

TopInputs == {None, Some(0), Some(1), Some(50), Some(1000), Some(1001), Some(5000)}

\* Options that vary the structured predicates.
FilterOptions ==
    { [NoMessageOptions EXCEPT !.from = f, !.importance = i, !.afterDateTime = a,
            !.beforeDateTime = b, !.contains = c] :
        f \in TextInputs, i \in {None, Some("high")}, a \in DateInputs,
        b \in {None, Some("2024-02-01T00:00:00Z")},
        c \in {None, Some(<<>>), Some(<<"i", "t", "'", "s">>)} }

\* Options that vary paging, ordering and the client-side isRead filter.
PagingOptions ==
    { [NoMessageOptions EXCEPT !.top = t, !.skip = k, !.isRead = r, !.orderBy = o] :
        t \in TopInputs, k \in {None, Some(2)}, r \in {None, Some(TRUE), Some(FALSE)},
        o \in {None, Some(<<"createdDateTime asc">>)} }

MessageOptions == FilterOptions \cup PagingOptions

GetMessagesOptions ==
    { [NoGetMessagesOptions EXCEPT !.top = t, !.filter = f] :
        t \in TopInputs, f \in {None, Some(<<"isRead eq false">>)} }

\* --------------------------------------------------------------- actions

Init ==
    /\ pc = "idle"
    /\ op = "none"
    /\ args = <<>>
    /\ local = <<>>
    /\ reqs = <<>>
    /\ result = None
    /\ warnings = <<>>
    /\ now = 0

\* The invocation's outcome is handed to its caller.
Finish ==
    /\ pc = "done"
    /\ pc' = "idle"
    /\ op' = "none"
    /\ args' = <<>>
    /\ local' = <<>>
    /\ reqs' = <<>>
    /\ result' = None
    /\ warnings' = <<>>
    /\ UNCHANGED now

\* ChatService.getChatMessages up to its await of request.get().
getChatMessages ==
    /\ pc = "idle"
    /\ \E chatId \in MsgChatIds, options \in MessageOptions, config \in ServiceConfigs :
        /\ op' = "getChatMessages"
        /\ args' = [chatId |-> chatId, options |-> options, config |-> config]
        /\ IF invalidDate(options)
           THEN /\ pc' = "done"
                /\ result' = Some(JsError(<<"Failed to get chat messages: ",
                                             "Invalid time value">>))
                /\ UNCHANGED <<reqs, local>>
           ELSE /\ pc' = "getChatMessages:get"
                /\ reqs' = Append(reqs, getChatMessagesRequest(chatId, options, config))
                /\ local' = [filterParts |-> filterParts(options, config),
                             response |-> None]
                /\ UNCHANGED result
    /\ UNCHANGED <<warnings, now>>

\* Graph answers; getChatMessages filters by isRead and returns, or throws.
getChatMessages_get ==
    /\ pc = "getChatMessages:get"
    /\ \E response \in MessageResponses \cup ValuelessResponses \cup GraphFailures :
        /\ result' = Some(getChatMessagesReturn(args.options, response))
        /\ local' = [local EXCEPT !.response = Some(response)]
    /\ pc' = "done"
    /\ UNCHANGED <<op, args, reqs, warnings, now>>

\* ChatService.getMessages up to its await.
getMessages ==
    /\ pc = "idle"
    /\ \E chatId \in MsgChatIds, options \in GetMessagesOptions :
        /\ op' = "getMessages"
        /\ args' = [chatId |-> chatId, options |-> options]
        /\ reqs' = Append(reqs, getMessagesRequest(chatId, options))
    /\ pc' = "getMessages:get"
    /\ UNCHANGED <<local, result, warnings, now>>

getMessages_get ==
    /\ pc = "getMessages:get"
    /\ \E response \in MessageResponses \cup GraphFailures :
        result' = Some(getMessagesReturn(response))
    /\ pc' = "done"
    /\ UNCHANGED <<op, args, local, reqs, warnings, now>>

\* ------------------------------------- handleGetMessages (REST handler)

HttpResponse(status, body) == Returned([status |-> status, body |-> body])

\* authHeader && authHeader.startsWith('Bearer ')
IsBearer(h) == IsSome(h) /\ Len(Get(h)) >= 2 /\ SubSeq(Get(h), 1, 2) = <<"Bearer", " ">>

\* authHeader.split(' ')[1]
bearerToken(h) == IF Len(Get(h)) >= 3 THEN <<Get(h)[3]>> ELSE <<>>

AuthHeaders ==
    {None, Some(<<"Bearer", " ", "t">>), Some(<<"Bearer", " ">>), Some(<<"Basic", " ", "t">>)}

QueryTops ==
    {None, Some(<<>>), Some(<<"1", "0">>), Some(<<"5", "0", "0", "0">>), Some(<<"x">>)}

GetMessagesHttpRequests ==
    { [method |-> m, authorization |-> h, chatId |-> c, top |-> t] :
        m \in {"GET", "POST"}, h \in AuthHeaders, c \in {None, Some("c1")},
        t \in QueryTops }

\* parseInt(searchParams.get('top') || '50', 10)
queryTop(req) == parseInt(IF TruthyStr(req.top) THEN Get(req.top) ELSE <<"5", "0">>)

\* GET /api/chat/messages up to the await of getMessages, or its early answer.
handleGetMessages ==
    /\ pc = "idle"
    /\ \E req \in GetMessagesHttpRequests :
        /\ op' = "handleGetMessages"
        /\ args' = req
        /\ IF req.method # "GET"
           THEN /\ result' = Some(HttpResponse(405, <<"Method not allowed">>))
                /\ pc' = "done"
                /\ UNCHANGED reqs
           ELSE IF ~IsBearer(req.authorization)
           THEN /\ result' = Some(HttpResponse(401,
                        <<"Authorization header with Bearer token is required">>))
                /\ pc' = "done"
                /\ UNCHANGED reqs
           ELSE IF IsNone(req.chatId)
           THEN /\ result' = Some(HttpResponse(500, <<"chatId is required">>))
                /\ pc' = "done"
                /\ UNCHANGED reqs
           ELSE IF Len(bearerToken(req.authorization)) = 0
           THEN /\ result' = Some(HttpResponse(500,
                        <<"accessToken is required in ChatService configuration">>))
                /\ pc' = "done"
                /\ UNCHANGED reqs
           ELSE /\ reqs' = Append(reqs, getMessagesRequest(Get(req.chatId),
                        [NoGetMessagesOptions EXCEPT !.top = queryTop(req)]))
                /\ pc' = "handleGetMessages:get"
                /\ UNCHANGED result
    /\ UNCHANGED <<local, warnings, now>>

handleGetMessages_get ==
    /\ pc = "handleGetMessages:get"
    /\ \E response \in MessageResponses \cup GraphFailures :
        LET r == getMessagesReturn(response)
        IN result' = Some(IF r.ok THEN HttpResponse(200, r.value)
                          ELSE HttpResponse(500, r.message))
    /\ pc' = "done"
    /\ UNCHANGED <<op, args, local, reqs, warnings, now>>

\* ---------------------------------------- list-messages (MCP tool handler)

ListMessagesArgs ==
    { [accessToken |-> a, chatId |-> "c1",
       options |-> [NoMessageOptions EXCEPT !.isRead = r, !.top = Some(t),
                        !.skip = Some(0), !.orderBy = Some(DefaultOrderBy)]] :
        a \in {<<>>, <<"t">>}, r \in {None, Some(TRUE), Some(FALSE)},
        t \in {1, DefaultPageSize, MaxMessagePageSize} }

formattedMessages(value) ==
    [i \in 1..Len(value) |-> [id |-> value[i].id, index |-> i, isRead |-> value[i].isRead]]

\* The tool response of list-messages for the collection getChatMessages returned.
listMessagesResponse(messages) ==
    [rows |-> IF Len(messages.value) = 0 THEN <<>>
              ELSE [i \in 1..Len(messages.value) |->
                        IF IsReadTruthy(messages.value[i]) THEN "" ELSE "[Unread]"],
     meta |-> [messages |-> formattedMessages(messages.value),
               count |-> Len(messages.value),
               hasMore |-> TruthyStr(messages.nextLink),
               nextLink |-> messages.nextLink]]

listMessagesTool ==
    /\ pc = "idle"
    /\ \E a \in ListMessagesArgs :
        /\ op' = "list-messages"
        /\ args' = a
        /\ IF Len(a.accessToken) = 0
           THEN /\ result' = Some(JsError(<<"Failed to list messages: ",
                        "accessToken is required in ChatService configuration">>))
                /\ pc' = "done"
                /\ UNCHANGED reqs
           ELSE /\ reqs' = Append(reqs, getChatMessagesRequest(a.chatId, a.options,
                        [accessToken |-> a.accessToken, userPrincipalName |-> None]))
                /\ pc' = "list-messages:get"
                /\ UNCHANGED result
    /\ local' = [response |-> None]
    /\ UNCHANGED <<warnings, now>>

listMessagesTool_get ==
    /\ pc = "list-messages:get"
    /\ \E response \in MessageResponses \cup ValuelessResponses \cup GraphFailures :
        LET r == getChatMessagesReturn(args.options, response)
        IN /\ result' = Some(IF ~r.ok
                             THEN JsError(<<"Failed to list messages: ">> \o r.message)
                             ELSE IF ~hasValue(r.value)
                             THEN JsError(<<"Failed to list messages: ">>
                                            \o TypeError("map").message)
                             ELSE Returned(listMessagesResponse(r.value)))
           /\ local' = [local EXCEPT !.response = Some(response)]
    /\ pc' = "done"
    /\ UNCHANGED <<op, args, reqs, warnings, now>>

NextMessages ==
    \/ getChatMessages
    \/ getChatMessages_get
    \/ getMessages
    \/ getMessages_get
    \/ handleGetMessages
    \/ handleGetMessages_get
    \/ listMessagesTool
    \/ listMessagesTool_get
    \/ Finish

SpecMessages == Init /\ [][NextMessages]_vars

\* ------------------------------------------------ ChatService.createChat
\* (src/src/services/chatService.ts: GET /me, user lookups, POST /chats)

MaxMembers == 2   \* members in one createChat call

UsersUrl == "https://graph.microsoft.com/v1.0/users/"
MemberType == "#microsoft.graph.aadUserConversationMember"

Other == <<"a", "b", "@", "x">>   \* another user, whose address ends like Upn
UserId == <<"u", "1">>            \* an object id, not an address

\* Members a caller may supply: without id, the caller, two other users.
MemberInputs ==
    { [id |-> <<>>, roles |-> None],
      [id |-> Upn, roles |-> None],
      [id |-> Other, roles |-> Some(<<>>)],
      [id |-> UserId, roles |-> Some(<<"owner">>)],
      [id |-> UserId, roles |-> None] }

RECURSIVE MemberListsOfLen(_)
MemberListsOfLen(n) ==
    IF n = 0 THEN {<<>>}
    ELSE { Append(l, m) : l \in MemberListsOfLen(n - 1), m \in MemberInputs }

MemberLists == UNION { MemberListsOfLen(n) : n \in 0..MaxMembers }

ChatDataInputs ==
    { [topic |-> <<"Sync">>, chatType |-> t, members |-> l] :
        t \in {"group", "oneOnOne"}, l \in MemberLists }

\* Answers of GET /me and GET /users/{id}: a user with or without a UPN.
UserResponses ==
    { [ok |-> TRUE, body |-> [userPrincipalName |-> u, mail |-> None]] :
        u \in {None, Some(Upn), Some(Other)} }

\* Successful answers of POST /chats.
PostChatResponses ==
    { [ok |-> TRUE, body |-> [id |-> i, createdDateTime |-> c]] :
        i \in {None, Some("X")}, c \in {None, Some(0)} }

\* (mutant) every member is looked up, addresses too.
needsLookup_always(member) == Len(member.id) > 0

\* A member with an id that is no address is looked up under /users/{id}.
needsLookup(member) == Len(member.id) > 0 /\ ~includes(member.id, <<"@">>)

\* (mutant) every lookup is sent a second time.
lookupRequests_again(members) ==
    LET once == SelectSeq([i \in 1..Len(members) |->
                    Request("GET", <<"users">> \o members[i].id, NoQuery, None)],
                 LAMBDA r : Len(r.path) > 1 /\ ~includes(r.path, <<"@">>))
    IN once \o once

\* The lookups the members.map callbacks send before any of them is answered.
lookupRequests(members) ==
    LET idx == { i \in 1..Len(members) : needsLookup(members[i]) }
        RECURSIVE from(_)
        from(i) == IF i > Len(members) THEN <<>>
                   ELSE (IF i \in idx
                         THEN <<Request("GET", <<"users">> \o members[i].id, NoQuery, None)>>
                         ELSE <<>>) \o from(i + 1)
    IN from(1)

memberEntry(userId, member) ==
    [type |-> MemberType,
     bind |-> <<UsersUrl>> \o encodeURIComponent(userId),
     roles |-> IF TruthyStr(member.roles) THEN Get(member.roles) ELSE <<"guest">>]

ownerEntry(upn) ==
    [type |-> MemberType, bind |-> <<UsersUrl>> \o encodeURIComponent(upn),
     roles |-> <<"owner">>]

\* members.some(m => m['user@odata.bind'].includes(encodeURIComponent(upn)))
currentUserExists(entries, upn) ==
    \E i \in 1..Len(entries) : includes(entries[i].bind, encodeURIComponent(upn))

\* The member list posted: the caller is put first unless found in it.
createChatMembers(userIds, members, upn) ==
    LET entries == [i \in 1..Len(members) |-> memberEntry(userIds[i], members[i])]
    IN IF currentUserExists(entries, upn) THEN entries
       ELSE <<ownerEntry(upn)>> \o entries

createChatRequest(chatData, payloadMembers) ==
    Request("POST", <<"chats">>, NoQuery,
        Some([chatType |-> chatData.chatType, topic |-> chatData.topic,
              members |-> payloadMembers]))

\* The catch block of createChat: the message depends on the status.
createChatCatch(error) ==
    IF error.statusCode = Some(401)
    THEN JsError(<<"Authentication failed. Please check your access token and permissions.">>)
    ELSE IF error.statusCode = Some(403)
    THEN JsError(<<"Insufficient permissions. The app needs Chat.Create and Chat.ReadWrite permissions.">>)
    ELSE IF error.statusCode = Some(404)
    THEN JsError(<<"One or more users could not be found. Please verify the user IDs and try again.">>)
    ELSE IF includes(error.message, <<"TenantNotFound">>)
    THEN JsError(<<"The specified tenant was not found. Please verify your Azure AD tenant configuration.">>)
    ELSE JsError(<<"Failed to create chat: ">> \o error.message)

\* The Chat returned from the POST answer, completed from the inputs.
createdChat(chatData, body, payloadMembers, time) ==
    [id |-> Get(body.id),
     topic |-> chatData.topic,
     chatType |-> chatData.chatType,
     createdDateTime |-> IF IsSome(body.createdDateTime) THEN body.createdDateTime
                         ELSE Some(time),
     members |-> [i \in 1..Len(payloadMembers) |->
                    [id |-> Tail(payloadMembers[i].bind), roles |-> payloadMembers[i].roles]]]

\* The tool response of create-chat (src/unnamed/part_000) for what the
\* service returned or threw.
createChatToolResponse(r) ==
    IF r.ok
    THEN Returned([text |-> <<"# ">> \o r.value.topic,
                   metadata |-> Some([chatId |-> r.value.id])])
    ELSE Returned([text |-> <<"Failed to create chat: ">> \o r.message,
                   metadata |-> None])

\* What the running entry point hands back for the service's outcome r.
createChatOutcome(o, r) ==
    IF o = "create-chat" THEN createChatToolResponse(r)
    ELSE IF o = "handleCreateChat"
    THEN (IF r.ok THEN HttpResponse(201, r.value) ELSE HttpResponse(500, r.message))
    ELSE r

MeRequest == Request("GET", <<"me">>, NoQuery, None)

\* createChat from its entry to its first await (GET /me), for entry point o.
createChatBegin(o, chatData) ==
    IF Len(chatData.members) = 0
    THEN /\ result' = Some(createChatOutcome(o, createChatCatch(
                JsError(<<"At least one member is required to create a chat">>))))
         /\ pc' = "done"
         /\ UNCHANGED <<reqs, local>>
    ELSE /\ reqs' = Append(reqs, MeRequest)
         /\ pc' = "createChat:me"
         /\ local' = [chatData |-> chatData, me |-> None,
                      userIds |-> [i \in 1..Len(chatData.members) |-> chatData.members[i].id],
                      pending |-> {}, members |-> <<>>, answer |-> None,
                      lookups |-> [i \in 1..Len(chatData.members) |-> None]]
         /\ UNCHANGED result

CreateConfigs == { [accessToken |-> a] : a \in {<<>>, <<"t">>} }

\* new ChatService(config).createChat(chatData)
createChat ==
    /\ pc = "idle"
    /\ \E config \in CreateConfigs, chatData \in ChatDataInputs :
        /\ op' = "createChat"
        /\ args' = [config |-> config, chatData |-> chatData]
        /\ IF Len(config.accessToken) = 0
           THEN /\ result' = Some(JsError(
                        <<"accessToken is required in ChatService configuration">>))
                /\ pc' = "done"
                /\ UNCHANGED <<reqs, local>>
           ELSE createChatBegin("createChat", chatData)
    /\ UNCHANGED <<warnings, now>>

\* GET /me is answered; the members.map callbacks run up to their awaits.
createChat_me ==
    /\ pc = "createChat:me"
    /\ \E r \in UserResponses \cup GraphFailures :
        LET members == local.chatData.members
            lookups == lookupRequests(members)
            upn == r.body.userPrincipalName
        IN IF ~r.ok
           THEN /\ result' = Some(createChatOutcome(op, createChatCatch(r)))
                /\ pc' = "done"
                /\ UNCHANGED <<reqs, local>>
           ELSE IF ~TruthyStr(upn)
           THEN /\ result' = Some(createChatOutcome(op, createChatCatch(
                        JsError(<<"Could not determine current user information">>))))
                /\ pc' = "done"
                /\ UNCHANGED <<reqs, local>>
           ELSE IF \E i \in 1..Len(members) : Len(members[i].id) = 0
           THEN /\ result' = Some(createChatOutcome(op, createChatCatch(
                        JsError(<<"Member ID is required">>))))
                /\ pc' = "done"
                /\ reqs' = reqs \o lookups
                /\ local' = [local EXCEPT !.me = upn]
           ELSE IF Len(lookups) = 0
           THEN LET payload == createChatMembers(local.userIds, members, Get(upn))
                IN /\ reqs' = Append(reqs, createChatRequest(local.chatData, payload))
                   /\ pc' = "createChat:post"
                   /\ local' = [local EXCEPT !.me = upn, !.members = payload]
                   /\ UNCHANGED result
           ELSE /\ reqs' = reqs \o lookups
                /\ pc' = "createChat:users"
                /\ local' = [local EXCEPT !.me = upn,
                        !.pending = { i \in 1..Len(members) : needsLookup(members[i]) }]
                /\ UNCHANGED result
    /\ UNCHANGED <<op, args, warnings, now>>

\* (mutant) a failed lookup leaves the member without an id.
resolvedUserId_lost(userId, r) ==
    IF r.ok /\ TruthyStr(r.body.userPrincipalName) THEN Get(r.body.userPrincipalName)
    ELSE IF r.ok THEN userId
    ELSE <<>>

\* userId after the try/catch around GET /users/{id}: the user's UPN, or the
\* supplied id when the user has none or the lookup failed.
resolvedUserId(userId, r) ==
    IF r.ok /\ TruthyStr(r.body.userPrincipalName) THEN Get(r.body.userPrincipalName)
    ELSE userId

\* One GET /users/{id} is answered; after the last one POST /chats is sent.
createChat_user ==
    /\ pc = "createChat:users"
    /\ \E i \in local.pending, r \in UserResponses \cup GraphFailures :
        LET userId == resolvedUserId(local.userIds[i], r)
            userIds == [local.userIds EXCEPT ![i] = userId]
            pending == local.pending \ {i}
            payload == createChatMembers(userIds, local.chatData.members, Get(local.me))
        IN /\ warnings' = IF r.ok THEN warnings
                          ELSE Append(warnings, <<"Could not find user with ID ">>
                                    \o local.userIds[i] \o <<", using as-is">>)
           /\ IF pending = {}
              THEN /\ reqs' = Append(reqs, createChatRequest(local.chatData, payload))
                   /\ pc' = "createChat:post"
                   /\ local' = [local EXCEPT !.userIds = userIds, !.pending = pending,
                                             !.members = payload,
                                             !.lookups[i] = Some(r)]
              ELSE /\ local' = [local EXCEPT !.userIds = userIds, !.pending = pending,
                                             !.lookups[i] = Some(r)]
                   /\ UNCHANGED <<reqs, pc>>
    /\ UNCHANGED <<op, args, result, now>>

\* POST /chats is answered.
createChat_post ==
    /\ pc = "createChat:post"
    /\ \E r \in PostChatResponses \cup GraphFailures :
        /\ result' = Some(createChatOutcome(op,
            IF ~r.ok THEN createChatCatch(r)
            ELSE IF IsNone(r.body.id)
            THEN createChatCatch(JsError(<<"Invalid response from Microsoft Graph API">>))
            ELSE Returned(createdChat(local.chatData, r.body, local.members, now))))
        /\ local' = [local EXCEPT !.answer = Some(r)]
    /\ pc' = "done"
    /\ UNCHANGED <<op, args, reqs, warnings, now>>

\* ------------------------------------ create-chat (src/unnamed/part_000)

\* Arguments that passed createChatSchema: a topic, members with ids.
CreateChatToolArgs ==
    { [accessToken |-> a, topic |-> <<"Sync">>, chatType |-> "group", members |-> l] :
        a \in {<<>>, <<"t">>},
        l \in { m \in MemberLists : Len(m) > 0 /\ \A i \in 1..Len(m) : Len(m[i].id) > 0 } }

createChatTool ==
    /\ pc = "idle"
    /\ \E a \in CreateChatToolArgs :
        /\ op' = "create-chat"
        /\ args' = a
        /\ IF Len(a.accessToken) = 0
           THEN /\ result' = Some(createChatToolResponse(JsError(<<"access_token needed">>)))
                /\ pc' = "done"
                /\ UNCHANGED <<reqs, local>>
           ELSE createChatBegin("create-chat",
                    [topic |-> a.topic, chatType |-> a.chatType, members |-> a.members])
    /\ UNCHANGED <<warnings, now>>

\* --------------------- createChat handler (src/src/tools/chatTools.ts)

\* Answers of fetch('.../me'): the caller's mail and UPN.
MeResponses ==
    { [ok |-> TRUE, body |-> [userPrincipalName |-> u, mail |-> m]] :
        u \in {None, Some(Upn)}, m \in {None, Some(Upn)} }

\* Handler arguments that passed its schema: at least one member; an id may
\* be any string.  An absent topic and an empty one are both <<>>.
CreateChatHandlerArgs ==
    { [token |-> k, chatType |-> "group", topic |-> t, members |-> l] :
        k \in {<<>>, <<"t">>}, t \in {<<>>, <<"Sync">>},
        l \in { m \in MemberLists : Len(m) > 0 } }

\* me.mail || me.userPrincipalName
myEmail(me) == IF TruthyStr(me.mail) THEN me.mail ELSE me.userPrincipalName

\* The caller as owner, then every supplied member as owner.
chatMembers(email, members) ==
    <<[type |-> MemberType, bind |-> <<UsersUrl>> \o email, roles |-> <<"owner">>]>>
    \o [i \in 1..Len(members) |->
            [type |-> MemberType, bind |-> <<UsersUrl>> \o members[i].id,
             roles |-> <<"owner">>]]

handlerError(message) ==
    Returned([isError |-> TRUE, text |-> <<"Error creating chat: ">> \o message,
              chatId |-> None])

createChatHandler ==
    /\ pc = "idle"
    /\ \E a \in CreateChatHandlerArgs :
        /\ op' = "createChatHandler"
        /\ args' = a
        /\ IF Len(a.token) = 0
           THEN /\ result' = Some(handlerError(<<"Authentication token not found. Please configure the AUTH_TOKEN environment variable in your MCP server configuration.">>))
                /\ pc' = "done"
                /\ UNCHANGED reqs
           ELSE /\ reqs' = Append(reqs, MeRequest)
                /\ pc' = "createChatHandler:me"
                /\ UNCHANGED result
    /\ local' = [me |-> None, members |-> <<>>]
    /\ UNCHANGED <<warnings, now>>

createChatHandler_me ==
    /\ pc = "createChatHandler:me"
    /\ \E r \in MeResponses \cup GraphFailures :
        IF ~r.ok
        THEN /\ result' = Some(handlerError(<<"Failed to get current user info: ">>
                                \o r.message))
             /\ pc' = "done"
             /\ UNCHANGED <<reqs, local>>
        ELSE IF ~TruthyStr(myEmail(r.body))
        THEN /\ result' = Some(handlerError(<<"Could not determine your email address from the authentication token">>))
             /\ pc' = "done"
             /\ UNCHANGED <<reqs, local>>
        ELSE LET payload == chatMembers(Get(myEmail(r.body)), args.members)
             IN /\ reqs' = Append(reqs, Request("POST", <<"chats">>, NoQuery,
                        Some([chatType |-> args.chatType, topic |-> args.topic,
                              members |-> payload])))
                /\ local' = [me |-> myEmail(r.body), members |-> payload]
                /\ pc' = "createChatHandler:post"
                /\ UNCHANGED result
    /\ UNCHANGED <<op, args, warnings, now>>

createChatHandler_post ==
    /\ pc = "createChatHandler:post"
    /\ \E r \in PostChatResponses \cup GraphFailures :
        result' = Some(IF ~r.ok
                       THEN handlerError(<<"Microsoft Graph API error: ">> \o r.message)
                       ELSE Returned([isError |-> FALSE,
                                      text |-> <<"Successfully created chat with ID: ">>,
                                      chatId |-> r.body.id]))
    /\ pc' = "done"
    /\ UNCHANGED <<op, args, local, reqs, warnings, now>>

\* ------------------------ ChatService.createChat (src/unnamed/part_006)
\* POST /chats, then getChat for the full chat, with a fallback.

\* `${chatResponse.id}` in a path or a result.
chatIdOf(body) == IF IsSome(body.id) THEN Get(body.id) ELSE "undefined"

part006Members(members) ==
    [i \in 1..Len(members) |->
        [type |-> MemberType, bind |-> <<UsersUrl>> \o members[i].id,
         roles |-> IF IsSome(members[i].roles) THEN Get(members[i].roles)
                   ELSE <<"owner">>]]

getChatRequest(chatId) ==
    Request("GET", <<"chats", chatId>>, [NoQuery EXCEPT !.expand = Some(<<"members">>)],
            None)

\* What Graph may answer to the follow-up getChat.
GetChatResponses ==
    { [ok |-> TRUE, body |-> [id |-> "X", topic |-> <<"Sync">>, chatType |-> "group",
                              createdDateTime |-> Some(t)]] : t \in 0..MaxClock }

\* (mutant) no fallback: the failure of the follow-up is rethrown.
getChatFailed_rethrow(chatData, chatResponse, error, time) ==
    JsError(<<"Failed to create chat: ", "Failed to get chat: ">> \o error.message)

\* The catch around getChat: the minimal Chat built from the POST answer.
getChatFailed(chatData, chatResponse, error, time) ==
    Returned([id |-> chatIdOf(chatResponse), topic |-> chatData.topic,
              chatType |-> chatData.chatType, createdDateTime |-> Some(time),
              lastUpdatedDateTime |-> Some(time)])

\* The wall clock advances.
Tick ==
    /\ now < MaxClock
    /\ now' = now + 1
    /\ UNCHANGED <<pc, op, args, local, reqs, result, warnings>>

createChat_part006 ==
    /\ pc = "idle"
    /\ \E chatData \in ChatDataInputs :
        /\ op' = "createChat_part006"
        /\ args' = [chatData |-> chatData]
        /\ reqs' = Append(reqs, createChatRequest(chatData, part006Members(chatData.members)))
    /\ local' = [startedAt |-> now, chatResponse |-> None, getChatError |-> None]
    /\ pc' = "createChat_part006:post"
    /\ UNCHANGED <<result, warnings, now>>

createChat_part006_post ==
    /\ pc = "createChat_part006:post"
    /\ \E r \in PostChatResponses \cup GraphFailures :
        IF ~r.ok
        THEN /\ result' = Some(JsError(<<"Failed to create chat: ">> \o r.message))
             /\ pc' = "done"
             /\ UNCHANGED <<reqs, local>>
        ELSE /\ reqs' = Append(reqs, getChatRequest(chatIdOf(r.body)))
             /\ local' = [local EXCEPT !.chatResponse = Some(r.body)]
             /\ pc' = "createChat_part006:getChat"
             /\ UNCHANGED result
    /\ UNCHANGED <<op, args, warnings, now>>

createChat_part006_getChat ==
    /\ pc = "createChat_part006:getChat"
    /\ \E r \in GetChatResponses \cup GraphFailures :
        IF r.ok
        THEN /\ result' = Some(Returned(r.body))
             /\ UNCHANGED <<local, warnings>>
        ELSE /\ result' = Some(getChatFailed(args.chatData, Get(local.chatResponse), r, now))
             /\ local' = [local EXCEPT !.getChatError = Some(r)]
             /\ warnings' = Append(warnings, <<"Warning: Could not fetch full chat details. You may need additional permissions like Chat.ReadAll.">>)
    /\ pc' = "done"
    /\ UNCHANGED <<op, args, reqs, now>>

\* ------------------------------------------------ ChatService.sendMessage

SendMessageInputs ==
    { [content |-> <<"h", "i">>, contentType |-> t] : t \in {None, Some("text"), Some("html")} }

sendMessageRequest(chatId, messageData) ==
    Request("POST", <<"chats", chatId, "messages">>, NoQuery,
        Some([content |-> messageData.content,
              contentType |-> IF IsSome(messageData.contentType)
                              THEN Get(messageData.contentType) ELSE "text"]))

SendMessageResponses ==
    { [ok |-> TRUE, body |-> [id |-> i]] : i \in {"m1", "m2"} }

sendMessage ==
    /\ pc = "idle"
    /\ \E chatId \in MsgChatIds, messageData \in SendMessageInputs :
        /\ op' = "sendMessage"
        /\ args' = [chatId |-> chatId, messageData |-> messageData]
        /\ reqs' = Append(reqs, sendMessageRequest(chatId, messageData))
    /\ pc' = "sendMessage:post"
    /\ UNCHANGED <<local, result, warnings, now>>

sendMessage_post ==
    /\ pc = "sendMessage:post"
    /\ \E r \in SendMessageResponses \cup GraphFailures :
        result' = Some(IF r.ok THEN Returned(r.body)
                       ELSE JsError(<<"Failed to send message: ">> \o r.message))
    /\ pc' = "done"
    /\ UNCHANGED <<op, args, local, reqs, warnings, now>>

\* ----------------------------------------------------------- listChats

MaxChats == 2     \* chats in one Graph page of /me/chats
MaxRecent == 2    \* messages of one chat in getRecentMessages

MaxChatPageSize == 50

ChatIds == <<"c1", "c2", "c3", "c4">>

ChatList(n) == [i \in 1..n |-> [id |-> ChatIds[i], topic |-> <<"Sync">>]]

\* The successful answers of GET /me/chats.
ChatListResponses ==
    { [ok |-> TRUE, body |-> [value |-> ChatList(n), nextLink |-> l]] :
        n \in 0..MaxChats, l \in {None, Some(NextLink)} }

NoListChatsOptions ==
    [top |-> None, skip |-> None, filter |-> None, orderby |-> None,
     select |-> None, expand |-> None]

ListChatsOptions ==
    { [NoListChatsOptions EXCEPT !.top = t, !.skip = k, !.filter = f] :
        t \in {None, Some(0), Some(10), Some(50), Some(51), Some(100)},
        k \in {None, Some(0), Some(5)},
        f \in {None, Some(<<"chatType eq 'group'">>)} }

\* options.top ? Math.min(options.top, 50) : 50
chatsTop(options) ==
    IF TruthyNum(options.top) THEN Min(Get(options.top), MaxChatPageSize)
    ELSE MaxChatPageSize

\* The request of ChatService.listChats in src/src/services/chatService.ts.
listChatsRequest(options) ==
    Request("GET", <<"me", "chats">>,
        [top |-> Some(chatsTop(options)),
         skip |-> None,
         filter |-> IF TruthyStr(options.filter) THEN options.filter ELSE None,
         orderby |-> IF TruthyStr(options.orderby) THEN options.orderby ELSE None,
         select |-> IF TruthyStr(options.select) THEN options.select ELSE None,
         expand |-> IF TruthyStr(options.expand) THEN options.expand ELSE None],
        None)

listChatsReturn(response) ==
    IF ~response.ok
    THEN JsError(<<"Failed to list chats: ">> \o response.message)
    ELSE Returned(response.body)

SkipWarning == <<"Skip parameter may not work as expected with Microsoft Graph API">>

listChats ==
    /\ pc = "idle"
    /\ \E options \in ListChatsOptions :
        /\ op' = "listChats"
        /\ args' = [options |-> options]
        /\ reqs' = Append(reqs, listChatsRequest(options))
        /\ warnings' = IF TruthyNum(options.skip) THEN Append(warnings, SkipWarning)
                       ELSE warnings
    /\ pc' = "listChats:get"
    /\ UNCHANGED <<local, result, now>>

listChats_get ==
    /\ pc = "listChats:get"
    /\ \E response \in ChatListResponses \cup GraphFailures :
        /\ result' = Some(listChatsReturn(response))
        /\ local' = [response |-> Some(response)]
    /\ pc' = "done"
    /\ UNCHANGED <<op, args, reqs, warnings, now>>

\* GET /api/chats (handleListChats, src/unnamed/part_005): listChats({top: 50}).
HandlerPageSize == 50

handleListChats ==
    /\ pc = "idle"
    /\ \E h \in AuthHeaders :
        /\ op' = "handleListChats"
        /\ args' = [authorization |-> h]
        /\ IF ~IsBearer(h)
           THEN /\ result' = Some(HttpResponse(401,
                        <<"Authorization header with Bearer token is required">>))
                /\ pc' = "done"
                /\ UNCHANGED reqs
           ELSE IF Len(bearerToken(h)) = 0
           THEN /\ result' = Some(HttpResponse(500,
                        <<"accessToken is required in ChatService configuration">>))
                /\ pc' = "done"
                /\ UNCHANGED reqs
           ELSE /\ reqs' = Append(reqs, listChatsRequest(
                        [NoListChatsOptions EXCEPT !.top = Some(HandlerPageSize)]))
                /\ pc' = "handleListChats:get"
                /\ UNCHANGED result
    /\ UNCHANGED <<local, warnings, now>>

handleListChats_get ==
    /\ pc = "handleListChats:get"
    /\ \E response \in ChatListResponses \cup GraphFailures :
        LET r == listChatsReturn(response)
        IN result' = Some(IF r.ok THEN HttpResponse(200, r.value)
                          ELSE HttpResponse(500, r.message))
    /\ pc' = "done"
    /\ UNCHANGED <<op, args, local, reqs, warnings, now>>

\* The request of ChatService.listChats in src/unnamed/part_006: top is sent
\* as given, and a skip is sent with request.top as well.
listChatsRequest_part006(options) ==
    Request("GET", <<"me", "chats">>,
        [top |-> IF TruthyNum(options.skip) THEN options.skip
                 ELSE IF TruthyNum(options.top) THEN options.top ELSE None,
         skip |-> None,
         filter |-> IF TruthyStr(options.filter) THEN options.filter ELSE None,
         orderby |-> IF TruthyStr(options.orderby) THEN options.orderby ELSE None,
         select |-> IF TruthyStr(options.select) THEN options.select ELSE None,
         expand |-> IF TruthyStr(options.expand) THEN options.expand ELSE None],
        None)

listChats_part006 ==
    /\ pc = "idle"
    /\ \E options \in ListChatsOptions :
        /\ op' = "listChats_part006"
        /\ args' = [options |-> options]
        /\ reqs' = Append(reqs, listChatsRequest_part006(options))
    /\ pc' = "listChats_part006:get"
    /\ UNCHANGED <<local, result, warnings, now>>

listChats_part006_get ==
    /\ pc = "listChats_part006:get"
    /\ \E response \in ChatListResponses \cup GraphFailures :
        /\ result' = Some(listChatsReturn(response))
        /\ local' = [response |-> Some(response)]
    /\ pc' = "done"
    /\ UNCHANGED <<op, args, reqs, warnings, now>>

\* listChats(token, options) of src/src/tools/chatTools.ts, over fetch.
listChatsFetchRequest(options) ==
    Request("GET", <<"me", "chats">>,
        [top |-> IF TruthyNum(options.top) THEN options.top ELSE None,
         skip |-> IF TruthyNum(options.skip) THEN options.skip ELSE None,
         filter |-> IF TruthyStr(options.filter) THEN options.filter ELSE None,
         orderby |-> IF TruthyStr(options.orderby) THEN options.orderby ELSE None,
         select |-> None,
         expand |-> IF TruthyStr(options.expand) THEN options.expand ELSE None],
        None)

listChatsFetch ==
    /\ pc = "idle"
    /\ \E token \in {<<>>, <<"t">>}, options \in ListChatsOptions :
        /\ op' = "listChatsFetch"
        /\ args' = [token |-> token, options |-> options]
        /\ IF Len(token) = 0
           THEN /\ result' = Some(JsError(<<"Authentication token not found. Please set the AUTH_TOKEN environment variable.">>))
                /\ pc' = "done"
                /\ UNCHANGED reqs
           ELSE /\ reqs' = Append(reqs, listChatsFetchRequest(options))
                /\ pc' = "listChatsFetch:get"
                /\ UNCHANGED result
    /\ UNCHANGED <<local, warnings, now>>

listChatsFetch_get ==
    /\ pc = "listChatsFetch:get"
    /\ \E response \in ChatListResponses \cup GraphFailures :
        /\ result' = Some(listChatsReturn(response))
        /\ local' = [response |-> Some(response)]
    /\ pc' = "done"
    /\ UNCHANGED <<op, args, reqs, warnings, now>>

\* ---------------------- ChatService.getRecentMessages (src/unnamed/part_006)

RecentChatsTop == 100     \* listChats({ top: 100 })
RecentPerChatTop == 20    \* options.top || 20
RecentDefaultTop == 50    \* options.top || 50

Times == {1, 2}

RECURSIVE RecentPagesOfLen(_)
RecentPagesOfLen(n) ==
    IF n = 0 THEN {<<>>}
    ELSE { Append(p, [id |-> n, isRead |-> "false", createdDateTime |-> t]) :
            p \in RecentPagesOfLen(n - 1), t \in Times }

\* The successful answers to the message listing of one chat.
RecentResponses ==
    { [ok |-> TRUE, body |-> [value |-> v, count |-> None, nextLink |-> None]] :
        v \in UNION { RecentPagesOfLen(n) : n \in 0..MaxRecent } }

RecentOptions ==
    { [NoMessageOptions EXCEPT !.top = t, !.skip = k] :
        t \in {None, Some(1), Some(2)}, k \in {None, Some(1)} }

\* The options getRecentMessages passes to getChatMessages for every chat.
perChatOptions(options) ==
    [options EXCEPT !.afterDateTime = Some("daysAgo"),
                    !.top = Some(IF TruthyNum(options.top) THEN Get(options.top)
                                 ELSE RecentPerChatTop)]

\* messages.value.map(msg => ({...msg, chatId, chatTopic, chatType}))
withChatInfo(value, chat) ==
    [i \in 1..Len(value) |->
        [id |-> value[i].id, isRead |-> value[i].isRead,
         createdDateTime |-> value[i].createdDateTime,
         chatId |-> chat.id, chatTopic |-> chat.topic]]

\* (mutant) a failed chat discards what was collected before it.
collected_reset(allMessages, ret, chat) ==
    IF ret.ok THEN allMessages \o withChatInfo(ret.value.value, chat) ELSE <<>>

\* allMessages after the try/catch of one chat of the loop.
collected(allMessages, ret, chat) ==
    IF ret.ok THEN allMessages \o withChatInfo(ret.value.value, chat) ELSE allMessages

\* Array.prototype.sort (stable) with the newest-first comparator.
RECURSIVE insertNewestFirst(_, _)
insertNewestFirst(sorted, m) ==
    IF Len(sorted) = 0 THEN <<m>>
    ELSE IF Head(sorted).createdDateTime >= m.createdDateTime
    THEN <<Head(sorted)>> \o insertNewestFirst(Tail(sorted), m)
    ELSE <<m>> \o sorted

\* (mutant) the collected messages are paged in the order they were collected.
sortNewestFirst_skipped(messages) == messages

RECURSIVE sortNewestFirst(_)
sortNewestFirst(messages) ==
    IF Len(messages) = 0 THEN <<>>
    ELSE insertNewestFirst(sortNewestFirst(SubSeq(messages, 1, Len(messages) - 1)),
                           messages[Len(messages)])

recentSkip(options) == IF TruthyNum(options.skip) THEN Get(options.skip) ELSE 0
recentTop(options) == IF TruthyNum(options.top) THEN Get(options.top) ELSE RecentDefaultTop

\* Array.prototype.slice(from, to)
slice(s, from, to) == SubSeq(s, from + 1, Min(to, Len(s)))

\* What getRecentMessages returns after its loop.
recentReturn(allMessages, options) ==
    LET sorted == sortNewestFirst(allMessages)
        skip == recentSkip(options)
        top == recentTop(options)
    IN Returned([value |-> slice(sorted, skip, skip + top),
                 nextLink |-> IF Len(sorted) > skip + top
                              THEN Some([skip |-> skip + top, top |-> top])
                              ELSE None])

recentWarning(chat) == <<"Error getting messages for chat ", chat.id>>

getRecentMessages ==
    /\ pc = "idle"
    /\ \E options \in RecentOptions :
        /\ op' = "getRecentMessages"
        /\ args' = [options |-> options]
    /\ reqs' = Append(reqs, listChatsRequest_part006(
                    [NoListChatsOptions EXCEPT !.top = Some(RecentChatsTop)]))
    /\ local' = [chats |-> <<>>, index |-> 0, allMessages |-> <<>>, answers |-> <<>>,
                 listing |-> None]
    /\ pc' = "getRecentMessages:listChats"
    /\ UNCHANGED <<result, warnings, now>>

\* The config of the service whose getRecentMessages runs.
RecentConfig == [accessToken |-> <<"t">>, userPrincipalName |-> None]

getRecentMessages_listChats ==
    /\ pc = "getRecentMessages:listChats"
    /\ \E response \in ChatListResponses \cup GraphFailures :
        LET r == listChatsReturn(response)
        IN IF ~r.ok
           THEN /\ result' = Some(JsError(<<"Failed to get recent messages: ">> \o r.message))
                /\ pc' = "done"
                /\ local' = [local EXCEPT !.listing = Some(response)]
                /\ UNCHANGED reqs
           ELSE IF Len(r.value.value) = 0
           THEN /\ result' = Some(recentReturn(<<>>, args.options))
                /\ pc' = "done"
                /\ local' = [local EXCEPT !.listing = Some(response)]
                /\ UNCHANGED reqs
           ELSE /\ reqs' = Append(reqs, getChatMessagesRequest(r.value.value[1].id,
                                    perChatOptions(args.options), RecentConfig))
                /\ local' = [local EXCEPT !.chats = r.value.value, !.index = 1,
                                          !.listing = Some(response)]
                /\ pc' = "getRecentMessages:getChatMessages"
                /\ UNCHANGED result
    /\ UNCHANGED <<op, args, warnings, now>>

\* The message listing of the current chat is answered: collect or warn,
\* then go on to the next chat or finish.
getRecentMessages_getChatMessages ==
    /\ pc = "getRecentMessages:getChatMessages"
    /\ \E response \in RecentResponses \cup GraphFailures :
        LET chat == local.chats[local.index]
            ret == getChatMessagesReturn(perChatOptions(args.options), response)
            all == collected(local.allMessages, ret, chat)
        IN /\ warnings' = IF ret.ok THEN warnings ELSE Append(warnings, recentWarning(chat))
           /\ IF local.index < Len(local.chats)
              THEN /\ reqs' = Append(reqs, getChatMessagesRequest(
                                local.chats[local.index + 1].id,
                                perChatOptions(args.options), RecentConfig))
                   /\ local' = [local EXCEPT !.index = local.index + 1,
                                    !.allMessages = all,
                                    !.answers = Append(local.answers, response)]
                   /\ UNCHANGED <<pc, result>>
              ELSE /\ result' = Some(recentReturn(all, args.options))
                   /\ local' = [local EXCEPT !.allMessages = all,
                                    !.answers = Append(local.answers, response)]
                   /\ pc' = "done"
                   /\ UNCHANGED reqs
    /\ UNCHANGED <<op, args, now>>

NextList ==
    \/ listChats
    \/ listChats_get
    \/ handleListChats
    \/ handleListChats_get
    \/ listChats_part006
    \/ listChats_part006_get
    \/ listChatsFetch
    \/ listChatsFetch_get
    \/ getRecentMessages
    \/ getRecentMessages_listChats
    \/ getRecentMessages_getChatMessages
    \/ Finish

SpecList == Init /\ [][NextList]_vars

\* createChat of part_006 under a running clock.
NextFallback ==
    \/ createChat_part006
    \/ createChat_part006_post
    \/ createChat_part006_getChat
    \/ Tick
    \/ Finish

SpecFallback == Init /\ [][NextFallback]_vars

\* The operations that create a chat, send a message or list chats.
NextOperations ==
    \/ createChat
    \/ createChat_me
    \/ createChat_user
    \/ createChat_post
    \/ createChatTool
    \/ createChatHandler
    \/ createChatHandler_me
    \/ createChatHandler_post
    \/ createChat_part006
    \/ createChat_part006_post
    \/ createChat_part006_getChat
    \/ sendMessage
    \/ sendMessage_post
    \/ listChats
    \/ listChats_get
    \/ Finish

SpecOperations == Init /\ [][NextOperations]_vars

\* ------------------------------- table cells (src/unnamed/part_000)

MaxTextLen == 55   \* characters of a formatted text

TopicWidth == 30
FromWidth == 25
ContentWidth == 50

\* A text of n characters, all different from their neighbours.
Text(n) == [i \in 1..n |-> Digits[(i % 10) + 1]]

\* A text whose second character is a line break.
TextWithBreak(n) == [i \in 1..n |-> IF i = 2 THEN "\n" ELSE Digits[(i % 10) + 1]]

\* String.prototype.substring(0, end)
substring(s, end) == SubSeq(s, 1, Min(end, Len(s)))

\* String.prototype.padEnd(width)
padEnd(s, width) == s \o [i \in 1..(width - Len(s)) |-> " "]

\* String.prototype.replace(/\n/g, ' ')
replaceBreaks(s) == [i \in 1..Len(s) |-> IF s[i] = "\n" THEN " " ELSE s[i]]

Ellipsis == <<".", ".", ".">>

\* (text || fallback).substring(0, W - 3).padEnd(W)
\*     + (text && text.length > W - 3 ? '...' : '')
cell(text, fallback, width) ==
    padEnd(substring(IF Len(text) > 0 THEN text ELSE fallback, width - 3), width)
    \o (IF Len(text) > 0 /\ Len(text) > width - 3 THEN Ellipsis ELSE <<>>)

contentCell(text, width) ==
    padEnd(replaceBreaks(substring(text, width - 3)), width)
    \o (IF Len(text) > 0 /\ Len(text) > width - 3 THEN Ellipsis ELSE <<>>)

NoTopic == <<"N", "o", " ", "t", "o", "p", "i", "c">>
Unknown == <<"U", "n", "k", "n", "o", "w", "n">>

\* The topic cell of one row of formatChatTable.
formatChatTable ==
    /\ pc = "idle"
    /\ \E n \in 1..MaxTextLen :
        /\ args' = [topic |-> Text(n)]
        /\ result' = Some(Returned([topic |-> cell(Text(n), NoTopic, TopicWidth)]))
    /\ op' = "formatChatTable"
    /\ pc' = "done"
    /\ UNCHANGED <<local, reqs, warnings, now>>

\* The sender and content cells of one row of formatMessageTable.
formatMessageTable ==
    /\ pc = "idle"
    /\ \E n \in 1..MaxTextLen, c \in { Text(k) : k \in 0..MaxTextLen }
                                   \cup { TextWithBreak(k) : k \in {2, MaxTextLen} } :
        /\ args' = [from |-> Text(n), content |-> c]
        /\ result' = Some(Returned([from |-> cell(Text(n), Unknown, FromWidth),
                                    content |-> contentCell(c, ContentWidth)]))
    /\ op' = "formatMessageTable"
    /\ pc' = "done"
    /\ UNCHANGED <<local, reqs, warnings, now>>

NextFormat ==
    \/ formatChatTable
    \/ formatMessageTable
    \/ Finish

SpecFormat == Init /\ [][NextFormat]_vars

\* ------------------------------------------------------------ the program

Next ==
    \/ NextMessages
    \/ NextList
    \/ NextOperations
    \/ NextFallback
    \/ NextFormat

Spec == Init /\ [][Next]_vars

\* ------------------------------------ list-chats (src/unnamed/part_000)

\* A chat as Graph returns it; topic, members and lastMessagePreview are
\* optional.
FullChat(i) ==
    [id |-> ChatIds[i], topic |-> Some(<<"S", "y", "n", "c">>),
     members |-> Some(<<[displayName |-> None, roles |-> None],
                        [displayName |-> Some(<<"A", "n", "n">>),
                         roles |-> Some(<<"owner">>)]>>),
     lastMessagePreview |-> Some([from |-> None, content |-> None])]

BareChat(i) ==
    [id |-> ChatIds[i], topic |-> None, members |-> None, lastMessagePreview |-> None]

RECURSIVE ToolChatLists(_)
ToolChatLists(n) ==
    IF n = 0 THEN {<<>>}
    ELSE { Append(l, c) : l \in ToolChatLists(n - 1), c \in {FullChat(n), BareChat(n)} }

\* The successful answers of GET /me/chats to the list-chats tool.
ToolChatResponses ==
    { [ok |-> TRUE, body |-> [value |-> v, nextLink |-> l]] :
        v \in UNION { ToolChatLists(n) : n \in 0..MaxChats },
        l \in {None, Some(NextLink)} }

\* Failures whose message holds a word the handler looks for.
WordedFailures ==
    { [GraphError(401) EXCEPT !.message = <<"AuthenticationError">>],
      [GraphError(403) EXCEPT !.message = <<"Missing ", "permission">>],
      [GraphError(429) EXCEPT !.message = <<"429">>] }

ArrayInputs == {None, Some(<<>>), Some(<<"a">>), Some(<<"a", "b">>)}

\* Arguments of list-chats; the arrays may be absent or empty.
ListChatsToolArgs ==
    { [accessToken |-> <<"t">>, top |-> Some(10), skip |-> None, filter |-> None,
       orderby |-> o, select |-> x, expand |-> None] :
            o \in ArrayInputs, x \in ArrayInputs }
    \cup
    { [accessToken |-> a, top |-> t, skip |-> None, filter |-> f,
       orderby |-> None, select |-> None, expand |-> x] :
            a \in {<<>>, <<"t">>}, t \in {None, Some(10)},
            f \in {None, Some(<<"chatType eq 'group'">>)}, x \in ArrayInputs }

DefaultChatOrderBy == <<"lastMessagePreview/createdDateTime desc">>
DefaultChatSelect ==
    <<"id", "topic", "chatType", "createdDateTime", "lastMessagePreview", "webUrl",
      "createdDateTime", "lastUpdatedDateTime">>
DefaultChatExpand == <<"members">>

\* listOptions.x?.length ? listOptions.x : defaultOptions.x
orDefault(array, default) == IF TruthyStr(array) THEN Get(array) ELSE default

\* (mutant) the arrays are passed on as supplied, without the defaults.
listChatsToolOptions_asSupplied(a) ==
    [top |-> IF IsSome(a.top) THEN a.top ELSE Some(MaxChatPageSize),
     skip |-> IF IsSome(a.skip) THEN a.skip ELSE Some(0),
     filter |-> a.filter,
     orderby |-> IF IsSome(a.orderby)
                 THEN Some(Join([i \in 1..Len(Get(a.orderby)) |-> <<Get(a.orderby)[i]>>],
                                <<",">>))
                 ELSE None,
     select |-> a.select,
     expand |-> a.expand]

\* The options the handler passes to chatService.listChats.
listChatsToolOptions(a) ==
    [top |-> IF IsSome(a.top) THEN a.top ELSE Some(MaxChatPageSize),
     skip |-> IF IsSome(a.skip) THEN a.skip ELSE Some(0),
     filter |-> a.filter,
     orderby |-> Some(Join([i \in 1..Len(orDefault(a.orderby, DefaultChatOrderBy)) |->
                                <<orDefault(a.orderby, DefaultChatOrderBy)[i]>>], <<",">>)),
     select |-> Some(orDefault(a.select, DefaultChatSelect)),
     expand |-> Some(orDefault(a.expand, DefaultChatExpand))]

\* formattedChats: every absent field gets its default.
formattedChat(chat) ==
    [id |-> chat.id,
     topic |-> IF TruthyStr(chat.topic) THEN Get(chat.topic) ELSE NoTopic,
     memberCount |-> IF IsSome(chat.members) THEN Len(Get(chat.members)) ELSE 0,
     lastMessage |-> IF IsSome(chat.lastMessagePreview)
                     THEN Some([from |-> IF TruthyStr(Get(chat.lastMessagePreview).from)
                                         THEN Get(Get(chat.lastMessagePreview).from)
                                         ELSE Unknown,
                                content |-> IF TruthyStr(Get(chat.lastMessagePreview).content)
                                            THEN Get(Get(chat.lastMessagePreview).content)
                                            ELSE <<"No content">>])
                     ELSE None,
     members |-> IF IsSome(chat.members)
                 THEN [i \in 1..Len(Get(chat.members)) |->
                        [displayName |-> IF TruthyStr(Get(chat.members)[i].displayName)
                                         THEN Get(Get(chat.members)[i].displayName)
                                         ELSE Unknown,
                         roles |-> IF IsSome(Get(chat.members)[i].roles)
                                   THEN Get(Get(chat.members)[i].roles) ELSE <<>>]]
                 ELSE <<>>]

\* The tool response of list-chats for the collection listChats returned.
listChatsToolResponse(response) ==
    LET chats == [i \in 1..Len(response.value) |-> formattedChat(response.value[i])]
    IN Returned([rows |-> [i \in 1..Len(chats) |-> cell(chats[i].topic, NoTopic, TopicWidth)],
                 meta |-> [chats |-> chats,
                           count |-> Len(response.value),
                           hasMore |-> TruthyStr(response.nextLink),
                           nextLink |-> response.nextLink]])

\* The catch block of list-chats: every branch throws a new Error whose
\* message is the JSON of {error, message, details, remediation}.
listChatsToolCatch(error) ==
    IF includes(error.message, <<"AuthenticationError">>)
    THEN JsError(<<"AUTHENTICATION_FAILED">> \o error.message
            \o <<"Please ensure your access token is valid and has the Chat.ReadBasic permission.">>)
    ELSE IF includes(error.message, <<"permission">>)
    THEN JsError(<<"INSUFFICIENT_PERMISSIONS">> \o error.message
            \o <<"Please ensure your access token includes the Chat.ReadBasic permission.">>)
    ELSE IF includes(error.message, <<"429">>)
            \/ includes(error.message, <<"Too Many Requests">>)
    THEN JsError(<<"RATE_LIMIT_EXCEEDED">> \o error.message
            \o <<"Please wait a few minutes before trying again.">>)
    ELSE JsError(<<"LIST_CHATS_FAILED">> \o error.message
            \o <<"Please check your network connection and try again. If the problem persists, contact support.">>)

Redacted == <<"***REDACTED***">>

\* if ('accessToken' in safeArgs && safeArgs.accessToken) safeArgs.accessToken = ...
redact(a) ==
    [a EXCEPT !.accessToken = IF Len(a.accessToken) > 0 THEN Redacted ELSE a.accessToken]

\* (mutant) safeArgs is the caller's object itself, which is redacted in place.
safeArgs_alias(a) == [args |-> redact(a), safeArgs |-> redact(a)]

\* The caller's args and the logged safeArgs after the handler's first
\* statements: safeArgs is a copy ({...args}) and only the copy is redacted.
safeArgs(a) == [args |-> a, safeArgs |-> redact(a)]

listChatsMcpTool ==
    /\ pc = "idle"
    /\ \E received \in ListChatsToolArgs :
      LET a == safeArgs(received).args IN
        /\ op' = "list-chats"
        /\ args' = a
        /\ local' = [response |-> None, received |-> received,
                     logged |-> safeArgs(received).safeArgs]
        /\ IF Len(a.accessToken) = 0
           THEN /\ result' = Some(listChatsToolCatch(JsError(
                        <<"accessToken is required in ChatService configuration">>)))
                /\ pc' = "done"
                /\ UNCHANGED <<reqs, warnings>>
           ELSE /\ reqs' = Append(reqs, listChatsRequest(listChatsToolOptions(a)))
                /\ warnings' = IF TruthyNum(listChatsToolOptions(a).skip)
                               THEN Append(warnings, SkipWarning) ELSE warnings
                /\ pc' = "list-chats:get"
                /\ UNCHANGED result
    /\ UNCHANGED now

listChatsMcpTool_get ==
    /\ pc = "list-chats:get"
    /\ \E response \in ToolChatResponses \cup GraphFailures \cup WordedFailures :
        LET r == listChatsReturn(response)
        IN /\ result' = Some(IF r.ok THEN listChatsToolResponse(r.value)
                             ELSE listChatsToolCatch(r))
           /\ local' = [local EXCEPT !.response = Some(response)]
    /\ pc' = "done"
    /\ UNCHANGED <<op, args, reqs, warnings, now>>

\* The three MCP tools of src/unnamed/part_000.
NextTools ==
    \/ listChatsMcpTool
    \/ listChatsMcpTool_get
    \/ listMessagesTool
    \/ listMessagesTool_get
    \/ createChatTool
    \/ createChat_me
    \/ createChat_user
    \/ createChat_post
    \/ Finish

SpecTools == Init /\ [][NextTools]_vars

\* The message listings and the MCP tools: every request that is ordered.
NextQueries == NextMessages \/ NextTools

SpecQueries == Init /\ [][NextQueries]_vars

\* Every listing: of chats, of messages, of recent messages, and list-chats.
NextListings ==
    \/ NextList
    \/ NextMessages
    \/ listChatsMcpTool
    \/ listChatsMcpTool_get

SpecListings == Init /\ [][NextListings]_vars

\* ------------------ POST /api/chat and /api/chat/send (src/unnamed/part_005)

\* JSON.parse of a request body: an empty or malformed body has no value.
Malformed == [json |-> None]
Json(data) == [json |-> Some(data)]

SendBodies ==
    { Malformed } \cup
    { Json([chatId |-> c, content |-> t]) : c \in {<<>>, <<"c1">>}, t \in {<<>>, <<"h", "i">>} }

SendHttpRequests ==
    { [method |-> m, authorization |-> h, body |-> b] :
        m \in {"POST", "GET"}, h \in AuthHeaders, b \in SendBodies }

SyntaxError == <<"Unexpected end of JSON input">>

\* POST /api/chat/send up to the await of sendMessage, or its early answer.
handleSendMessage ==
    /\ pc = "idle"
    /\ \E req \in SendHttpRequests :
        /\ op' = "handleSendMessage"
        /\ args' = req
        /\ IF req.method # "POST"
           THEN /\ result' = Some(HttpResponse(405, <<"Method not allowed">>))
                /\ pc' = "done"
                /\ UNCHANGED reqs
           ELSE IF IsNone(req.body.json)
           THEN /\ result' = Some(HttpResponse(500, SyntaxError))
                /\ pc' = "done"
                /\ UNCHANGED reqs
           ELSE IF ~IsBearer(req.authorization)
           THEN /\ result' = Some(HttpResponse(401,
                        <<"Authorization header with Bearer token is required">>))
                /\ pc' = "done"
                /\ UNCHANGED reqs
           ELSE IF Len(Get(req.body.json).chatId) = 0 \/ Len(Get(req.body.json).content) = 0
           THEN /\ result' = Some(HttpResponse(400, <<"Validation failed">>))
                /\ pc' = "done"
                /\ UNCHANGED reqs
           ELSE IF Len(bearerToken(req.authorization)) = 0
           THEN /\ result' = Some(HttpResponse(500,
                        <<"accessToken is required in ChatService configuration">>))
                /\ pc' = "done"
                /\ UNCHANGED reqs
           ELSE /\ reqs' = Append(reqs, sendMessageRequest(Get(req.body.json).chatId[1],
                        [content |-> Get(req.body.json).content,
                         contentType |-> Some("text")]))
                /\ pc' = "handleSendMessage:post"
                /\ UNCHANGED result
    /\ UNCHANGED <<local, warnings, now>>

handleSendMessage_post ==
    /\ pc = "handleSendMessage:post"
    /\ \E r \in SendMessageResponses \cup GraphFailures :
        result' = Some(IF r.ok THEN HttpResponse(200, <<r.body.id>>)
                       ELSE HttpResponse(500, <<"Failed to send message: ">> \o r.message))
    /\ pc' = "done"
    /\ UNCHANGED <<op, args, local, reqs, warnings, now>>

CreateBodies == { Malformed } \cup { Json(d) : d \in ChatDataInputs }

CreateHttpRequests ==
    { [method |-> m, authorization |-> h, body |-> b] :
        m \in {"POST", "GET"}, h \in AuthHeaders, b \in CreateBodies }

\* schema.parse succeeds: at least one member and no empty member id.
validChatData(d) ==
    Len(d.members) > 0 /\ \A i \in 1..Len(d.members) : Len(d.members[i].id) > 0

\* The parsed data: absent roles get the schema's default ['guest'].
validatedData(d) ==
    [d EXCEPT !.members = [i \in 1..Len(d.members) |->
        [d.members[i] EXCEPT !.roles = IF IsSome(d.members[i].roles) THEN d.members[i].roles
                                       ELSE Some(<<"guest">>)]]]

\* POST /api/chat up to the first await of createChat, or its early answer.
handleCreateChat ==
    /\ pc = "idle"
    /\ \E req \in CreateHttpRequests :
        /\ op' = "handleCreateChat"
        /\ args' = req
        /\ IF req.method # "POST"
           THEN /\ result' = Some(HttpResponse(405, <<"Method not allowed">>))
                /\ pc' = "done"
                /\ UNCHANGED <<reqs, local>>
           ELSE IF IsNone(req.body.json)
           THEN /\ result' = Some(HttpResponse(500, SyntaxError))
                /\ pc' = "done"
                /\ UNCHANGED <<reqs, local>>
           ELSE IF ~IsBearer(req.authorization)
           THEN /\ result' = Some(HttpResponse(401,
                        <<"Authorization header with Bearer token is required">>))
                /\ pc' = "done"
                /\ UNCHANGED <<reqs, local>>
           ELSE IF ~validChatData(Get(req.body.json))
           THEN /\ result' = Some(HttpResponse(400, <<"Failed to create chat">>))
                /\ pc' = "done"
                /\ UNCHANGED <<reqs, local>>
           ELSE IF Len(bearerToken(req.authorization)) = 0
           THEN /\ result' = Some(HttpResponse(500,
                        <<"accessToken is required in ChatService configuration">>))
                /\ pc' = "done"
                /\ UNCHANGED <<reqs, local>>
           ELSE createChatBegin("handleCreateChat", validatedData(Get(req.body.json)))
    /\ UNCHANGED <<warnings, now>>

\* The REST endpoints under /api/chat.
NextRest ==
    \/ handleCreateChat
    \/ createChat_me
    \/ createChat_user
    \/ createChat_post
    \/ handleSendMessage
    \/ handleSendMessage_post
    \/ handleGetMessages
    \/ handleGetMessages_get
    \/ handleListChats
    \/ handleListChats_get
    \/ Finish

SpecRest == Init /\ [][NextRest]_vars

\* ------------------- concurrent requests (src/src/index.ts, chatTools.ts)

\* The requests the worker serves at the same time.
MaxCalls == 2

\* The bearer tokens the requests carry.
Tokens == {<<"a">>, <<"b">>}

\* A Graph request of the createChat handler, sent for call i with a token.
fetchRequest(i, method, path, token) ==
    [method |-> method, path |-> path, query |-> NoQuery, body |-> None,
     bearer |-> token, call |-> i]

\* The calls served so far (none before the first request).
servedCalls == IF pc = "serving" THEN local.calls ELSE <<>>

\* fetch of index.ts: setAuthToken(token) stores the request's token in the
\* module variable currentAuthToken, then the request is handed to the server.
fetch ==
    /\ pc \in {"idle", "serving"}
    /\ Len(servedCalls) < MaxCalls
    /\ \E token \in Tokens :
        local' = [currentAuthToken |-> Some(token),
                  calls |-> Append(servedCalls, [token |-> token, at |-> "received"])]
    /\ pc' = "serving"
    /\ op' = "fetch"
    /\ UNCHANGED <<args, reqs, result, warnings, now>>

\* The createChat handler of a call starts: it checks currentAuthToken and
\* sends GET /me with it.
fetch_handler ==
    /\ pc = "serving"
    /\ \E i \in 1..Len(local.calls) :
        /\ local.calls[i].at = "received"
        /\ IF ~TruthyStr(local.currentAuthToken)
           THEN /\ local' = [local EXCEPT !.calls[i].at = "failed"]
                /\ UNCHANGED reqs
           ELSE /\ reqs' = Append(reqs, fetchRequest(i, "GET", <<"me">>,
                                                     Get(local.currentAuthToken)))
                /\ local' = [local EXCEPT !.calls[i].at = "me"]
    /\ UNCHANGED <<pc, op, args, result, warnings, now>>

\* GET /me of a call is answered: on success the handler sends POST /chats
\* with whatever currentAuthToken holds now.
fetch_me ==
    /\ pc = "serving"
    /\ \E i \in 1..Len(local.calls), ok \in BOOLEAN :
        /\ local.calls[i].at = "me"
        /\ IF ~ok
           THEN /\ local' = [local EXCEPT !.calls[i].at = "failed"]
                /\ UNCHANGED reqs
           ELSE /\ reqs' = Append(reqs, fetchRequest(i, "POST", <<"chats">>,
                                                     Get(local.currentAuthToken)))
                /\ local' = [local EXCEPT !.calls[i].at = "post"]
    /\ UNCHANGED <<pc, op, args, result, warnings, now>>

\* POST /chats of a call is answered.
fetch_post ==
    /\ pc = "serving"
    /\ \E i \in 1..Len(local.calls), ok \in BOOLEAN :
        /\ local.calls[i].at = "post"
        /\ local' = [local EXCEPT !.calls[i].at = IF ok THEN "created" ELSE "failed"]
    /\ UNCHANGED <<pc, op, args, reqs, result, warnings, now>>

\* Every call served so far has ended.
fetch_end ==
    /\ pc = "serving"
    /\ \A i \in 1..Len(local.calls) : local.calls[i].at \in {"created", "failed"}
    /\ pc' = "done"
    /\ result' = Some(Returned(local.calls))
    /\ UNCHANGED <<op, args, local, reqs, warnings, now>>

NextServer ==
    \/ fetch
    \/ fetch_handler
    \/ fetch_me
    \/ fetch_post
    \/ fetch_end
    \/ Finish

SpecServer == Init /\ [][NextServer]_vars

\* ------------------------------ SseServer (src/src/tools/chatTools.ts)

\* The SSE connections opened, and the broadcasts made, while the server runs.
MaxConns == 2
MaxBroadcasts == 2

\* Map.prototype.set: an existing key keeps its place and gets the new value.
mapSet(map, key, value) ==
    IF \E k \in 1..Len(map) : map[k].id = key
    THEN [k \in 1..Len(map) |-> IF map[k].id = key THEN [id |-> key, res |-> value]
                                ELSE map[k]]
    ELSE Append(map, [id |-> key, res |-> value])

\* Map.prototype.delete
mapDelete(map, key) == SelectSeq(map, LAMBDA entry : entry.id # key)

\* The connections a map holds.
mapValues(map) == { map[k].res : k \in 1..Len(map) }

\* The registry after the loop of broadcast: sendEvent catches the error of
\* a failing write itself, so the catch of the loop, which deletes the
\* client, never runs.
afterBroadcast(clients, failing) == clients

\* SseServer.start: the server listens with an empty registry.
start ==
    /\ pc = "idle"
    /\ pc' = "sse"
    /\ op' = "SseServer"
    /\ local' = [clients |-> <<>>, conns |-> <<>>, broadcasts |-> 0,
                 targets |-> {}, failed |-> {}, delivered |-> {}]
    /\ UNCHANGED <<args, reqs, result, warnings, now>>

\* GET /events: the connection is registered under Date.now().toString() and
\* gets the 'connected' event.
handleSseConnection ==
    /\ pc = "sse"
    /\ Len(local.conns) < MaxConns
    /\ local' = [local EXCEPT
            !.clients = mapSet(local.clients, now, Len(local.conns) + 1),
            !.conns = Append(local.conns, [id |-> now, open |-> TRUE, written |-> 0,
                                           due |-> 0]),
            !.targets = {}, !.failed = {}, !.delivered = {}]
    /\ UNCHANGED <<pc, op, args, reqs, result, warnings, now>>

\* The 'close' listener of a connection: this.clients.delete(clientId).
close ==
    /\ pc = "sse"
    /\ \E c \in 1..Len(local.conns) :
        /\ local.conns[c].open
        /\ local' = [local EXCEPT
                !.clients = mapDelete(local.clients, local.conns[c].id),
                !.conns[c].open = FALSE,
                !.targets = {}, !.failed = {}, !.delivered = {}]
    /\ UNCHANGED <<pc, op, args, reqs, result, warnings, now>>

\* SseServer.broadcast: sendEvent for every registered client; the write to
\* any of them may fail.
broadcast ==
    /\ pc = "sse"
    /\ local.broadcasts < MaxBroadcasts
    /\ \E failing \in SUBSET mapValues(local.clients) :
        local' = [local EXCEPT
            !.broadcasts = local.broadcasts + 1,
            !.conns = [c \in 1..Len(local.conns) |->
                [local.conns[c] EXCEPT
                    !.written = IF c \in mapValues(local.clients) THEN @ + 1 ELSE @,
                    !.due = IF local.conns[c].open THEN @ + 1 ELSE @]],
            !.clients = afterBroadcast(local.clients, failing),
            !.targets = mapValues(local.clients),
            !.failed = failing,
            !.delivered = mapValues(local.clients) \ failing]
    /\ UNCHANGED <<pc, op, args, reqs, result, warnings, now>>

\* SseServer.stop: every registered client is ended and the registry cleared.
stop ==
    /\ pc = "sse"
    /\ pc' = "done"
    /\ local' = [local EXCEPT !.clients = <<>>,
                    !.conns = [c \in 1..Len(local.conns) |->
                                [local.conns[c] EXCEPT !.open = FALSE]],
                    !.targets = {}, !.failed = {}, !.delivered = {}]
    /\ result' = Some(Returned(local.broadcasts))
    /\ UNCHANGED <<op, args, reqs, warnings, now>>

NextSse ==
    \/ start
    \/ handleSseConnection
    \/ close
    \/ broadcast
    \/ stop
    \/ Tick
    \/ Finish

SpecSse == Init /\ [][NextSse]_vars

\* ------------------------------------------------- what is logged

\* The longest bearer token.
MaxTokenLen == 12

\* The characters of a token shown by the service and by fetch.
TokenPrefixLen == 10

\* Bearer tokens of every length up to MaxTokenLen.
TokenInputs ==
    { Append(Text(n - 1), c) : n \in 1..MaxTokenLen, c \in {"x", "y", "z"} }

\* authProvider: 'Using access token starting with:', token.substring(0, 10) + '...'
authProviderLog(token) ==
    <<"Using access token starting with:">> \o substring(token, TokenPrefixLen)
        \o <<"...">>

\* fetch: 'Auth token received:', authToken ? `${authToken.substring(0, 10)}...`
\* : 'No token found'
fetchLog(token) ==
    <<"Auth token received:">> \o
        (IF Len(token) > 0 THEN substring(token, TokenPrefixLen) \o <<"...">>
         ELSE <<"No token found">>)

\* list-chats and create-chat: JSON.stringify(safeArgs)
safeArgsLog(token) ==
    <<"accessToken">> \o safeArgs([accessToken |-> token]).safeArgs.accessToken

LogSites == {"authProvider", "fetch:log", "safeArgs"}

\* One of the log statements runs for a token.
consoleLog ==
    /\ pc = "idle"
    /\ \E site \in LogSites, token \in TokenInputs \cup {<<>>} :
        /\ site = "authProvider" => Len(token) > 0
        /\ op' = site
        /\ args' = [accessToken |-> token]
        /\ result' = Some(Returned(CASE site = "authProvider" -> authProviderLog(token)
                                     [] site = "fetch:log" -> fetchLog(token)
                                     [] OTHER -> safeArgsLog(token)))
    /\ pc' = "done"
    /\ UNCHANGED <<local, reqs, warnings, now>>

NextLog ==
    \/ consoleLog
    \/ Finish

SpecLog == Init /\ [][NextLog]_vars

\* Every operation that sends Graph requests.
NextCalls ==
    \/ NextOperations
    \/ NextList
    \/ NextMessages

SpecCalls == Init /\ [][NextCalls]_vars

\* ================================================================ claims

IsMessageListing(r) ==
    r.method = "GET" /\ Len(r.path) = 3 /\ r.path[1] = "chats" /\ r.path[3] = "messages"

RECURSIVE QuoteCount(_)
QuoteCount(s) ==
    IF Len(s) = 0 THEN 0 ELSE (IF Head(s) = "'" THEN 1 ELSE 0) + QuoteCount(Tail(s))

\* Every quote of s is one of an adjacent pair.
RECURSIVE QuotesPaired(_)
QuotesPaired(s) ==
    IF Len(s) = 0 THEN TRUE
    ELSE IF Head(s) # "'" THEN QuotesPaired(Tail(s))
    ELSE Len(s) >= 2 /\ s[2] = "'" /\ QuotesPaired(SubSeq(s, 3, Len(s)))

\* The literal between the quotes of a from or contains clause.
ClauseLiteral(clause) == SubSeq(clause, 2, Len(clause) - 1)

\* The clause openers the claim expects, in its order, for the truthy predicates.
ExpectedClauseOpeners(o) ==
    (IF TruthyStr(o.from) THEN <<"from/emailAddress/address eq '">> ELSE <<>>)
    \o (IF IsSome(o.importance) THEN <<"importance eq '">> ELSE <<>>)
    \o (IF IsSome(o.afterDateTime) THEN <<"createdDateTime ge ">> ELSE <<>>)
    \o (IF IsSome(o.beforeDateTime) THEN <<"createdDateTime le ">> ELSE <<>>)
    \o (IF TruthyStr(o.contains) THEN <<"contains(body/content, '">> ELSE <<>>)

SentByGetChatMessages == op = "getChatMessages" /\ Len(reqs) = 1

\* C1 (as claimed): the $filter getChatMessages sends has exactly one clause per
\* supplied predicate, joined by ' and ', in the order from, importance,
\* createdDateTime ge, createdDateTime le, contains; every single quote of the
\* user's from and contains text is doubled; without a predicate no $filter is sent.
C1_FilterClausesQuotesDoubled ==
    SentByGetChatMessages =>
        LET o == args.options
            parts == local.filterParts
            sender == fromValue(o, args.config)
        IN /\ [i \in 1..Len(parts) |-> parts[i][1]] = ExpectedClauseOpeners(o)
           /\ reqs[1].query.filter =
                (IF Len(parts) = 0 THEN None ELSE Some(Join(parts, <<" and ">>)))
           /\ TruthyStr(o.contains) =>
                /\ QuotesPaired(ClauseLiteral(parts[Len(parts)]))
                /\ QuoteCount(ClauseLiteral(parts[Len(parts)]))
                        = 2 * QuoteCount(Get(o.contains))
           /\ TruthyStr(o.from) =>
                /\ QuotesPaired(ClauseLiteral(parts[1]))
                /\ QuoteCount(ClauseLiteral(parts[1])) = 2 * QuoteCount(sender)

\* The top the caller of the running message listing supplied.
CallerTop ==
    IF op = "handleGetMessages"
    THEN (IF TruthyStr(args.top) THEN parseInt(Get(args.top)) ELSE None)
    ELSE args.options.top

\* C2 (as claimed): every message-listing request carries $top <= 1000: a
\* caller's top above 1000 is sent as 1000, a top in 1..1000 unchanged, an
\* absent top as 50, on every listing path.
C2_MessageTopClamped ==
    \A i \in 1..Len(reqs) :
        IsMessageListing(reqs[i]) =>
            /\ IsSome(reqs[i].query.top)
            /\ Get(reqs[i].query.top) <= MaxMessagePageSize
            /\ IsNone(CallerTop) => Get(reqs[i].query.top) = DefaultPageSize
            /\ (IsSome(CallerTop) /\ Get(CallerTop) > MaxMessagePageSize)
                    => Get(reqs[i].query.top) = MaxMessagePageSize
            /\ (IsSome(CallerTop) /\ Get(CallerTop) \in 1..MaxMessagePageSize)
                    => Get(reqs[i].query.top) = Get(CallerTop)

\* The messages a finished getChatMessages / list-messages call gives back.
ReturnedMessages ==
    IF op = "list-messages" THEN Get(result).value.meta.messages ELSE Get(result).value.value

IsReadFiltered ==
    /\ op \in {"getChatMessages", "list-messages"}
    /\ pc = "done"
    /\ Get(result).ok
    /\ IsSome(args.options.isRead)

\* C5: with isRead = b, every returned message has read status b, every
\* retrieved message with read status b is returned, in its original order, and
\* the reported count (@odata.count when Graph gave one, the tool's count) is
\* the number of messages left after filtering.
C5_IsReadFilterAndCount ==
    IsReadFiltered =>
        LET b == Get(args.options.isRead)
            raw == Get(local.response).body.value
            v == ReturnedMessages
            kept == { j \in 1..Len(raw) : IsReadTruthy(raw[j]) = b }
        IN /\ \A i \in 1..Len(v) : v[i].id \in kept /\ v[i].isRead = raw[v[i].id].isRead
           /\ \A i \in 1..(Len(v) - 1) : v[i].id < v[i + 1].id
           /\ \A j \in kept : \E i \in 1..Len(v) : v[i].id = j
           /\ (op = "getChatMessages" /\ IsSome(Get(result).value.count))
                => Get(Get(result).value.count) = Cardinality(kept)
           /\ op = "list-messages" => Get(result).value.meta.count = Cardinality(kept)

\* C5 witness: [read, unread, unread] with isRead = false gives 2 entries, count 2.
C5_Witness ==
    /\ IsReadFiltered
    /\ op = "getChatMessages"
    /\ args.options.isRead = Some(FALSE)
    /\ Get(local.response).body.value
            = <<Message(1, "true"), Message(2, "false"), Message(3, "false")>>
    /\ Len(Get(result).value.value) = 2
    /\ Get(result).value.count = Some(2)

\* ---------------------------------------------------------------- C3

IsChatListing(r) == r.method = "GET" /\ r.path = <<"me", "chats">>

\* The top the caller of listChats asked for.
CallerChatsTop ==
    CASE op = "handleListChats" -> Some(50)
      [] op = "getRecentMessages" -> Some(100)
      [] OTHER -> args.options.top

\* C3: every request sent to /me/chats carries $top <= 50: min(top, 50) when
\* the caller gave a top, 50 when it gave none, whichever caller invokes
\* listChats.
C3_ChatTopClamped ==
    \A i \in 1..Len(reqs) :
        IsChatListing(reqs[i]) =>
            /\ IsSome(reqs[i].query.top)
            /\ Get(reqs[i].query.top) <= 50
            /\ Get(reqs[i].query.top) =
                    IF TruthyNum(CallerChatsTop) THEN Min(Get(CallerChatsTop), 50) ELSE 50

\* ---------------------------------------------------------------- C4

\* createChat of part_006 is over, POST /chats had answered with an id and
\* the follow-up getChat had failed.
FallbackTaken ==
    /\ op = "createChat_part006"
    /\ pc = "done"
    /\ IsSome(local.chatResponse)
    /\ IsSome(Get(local.chatResponse).id)
    /\ IsSome(local.getChatError)

\* C4: if POST /chats succeeds with id X and the follow-up fetch of the full
\* chat fails, createChat does not fail: it returns a Chat with id X, the
\* caller's topic and chatType, and a createdDateTime taken during the call
\* (not older than the start of the call).
C4_FallbackChat ==
    FallbackTaken =>
        /\ Get(result).ok
        /\ Get(result).value.id = Get(Get(local.chatResponse).id)
        /\ Get(result).value.topic = args.chatData.topic
        /\ Get(result).value.chatType = args.chatData.chatType
        /\ IsSome(Get(result).value.createdDateTime)
        /\ Get(Get(result).value.createdDateTime) >= local.startedAt
        /\ Get(Get(result).value.createdDateTime) <= now

\* C4 witness: the fallback is taken in a call that started after the clock
\* had advanced, and the clock advanced again during the call.
C4_Witness ==
    /\ FallbackTaken
    /\ local.startedAt > 0
    /\ now > local.startedAt
    /\ Get(result).ok

\* ---------------------------------------------------------------- C6

FormattedCells ==
    IF op = "formatChatTable"
    THEN {[text |-> args.topic, cell |-> Get(result).value.topic, width |-> 30]}
    ELSE IF op = "formatMessageTable"
    THEN {[text |-> args.from, cell |-> Get(result).value.from, width |-> 25],
          [text |-> args.content, cell |-> Get(result).value.content, width |-> 50]}
    ELSE {}

\* C6: a text longer than its column width W is rendered as its first W-3
\* characters followed by '...', and the rendered cell is exactly W characters
\* wide for every text length (topic 30, sender 25, content 50).
C6_CellsFixedWidth ==
    \A c \in FormattedCells :
        /\ Len(c.cell) = c.width
        /\ Len(c.text) > c.width =>
                /\ SubSeq(c.cell, c.width - 2, c.width) = <<".", ".", ".">>
                /\ \A i \in 1..(c.width - 3) :
                        c.cell[i] = c.text[i] \/ (c.text[i] = "\n" /\ c.cell[i] = " ")

\* ---------------------------------------------------------------- C7

\* getRecentMessages is over and its loop over the chats has run.
RecentLoopDone == op = "getRecentMessages" /\ pc = "done" /\ local.index >= 1

ChatsListed == { i \in 1..Len(local.answers) : local.answers[i].ok }

\* The messages Graph returned for the chats whose listing succeeded.
MessagesListed ==
    UNION { { [chatId |-> local.chats[i].id, id |-> local.answers[i].body.value[k].id] :
                k \in 1..Len(local.answers[i].body.value) } : i \in ChatsListed }

MessagesReturned ==
    { [chatId |-> Get(result).value.value[k].chatId, id |-> Get(result).value.value[k].id] :
        k \in 1..Len(Get(result).value.value) }

\* One message listing per chat, in the order of the chats.
EveryChatQueried ==
    /\ Len(reqs) = 1 + Len(local.chats)
    /\ \A i \in 1..Len(local.chats) :
            reqs[i + 1].path = <<"chats", local.chats[i].id, "messages">>

\* One warning per failed chat, in the order of the chats.
FailedChatsWarned ==
    LET failed == SelectSeq([i \in 1..Len(local.answers) |-> i],
                            LAMBDA i : ~local.answers[i].ok)
    IN /\ Len(warnings) = Len(failed)
       /\ \A k \in 1..Len(failed) :
            warnings[k][Len(warnings[k])] = local.chats[failed[k]].id

\* C7 as stated: whatever chats fail, no exception escapes, the result holds
\* exactly the messages of the chats whose listing succeeded, every chat is
\* queried and a warning is recorded per failed chat.
C7_ExactlyListedMessages ==
    RecentLoopDone =>
        /\ Get(result).ok
        /\ MessagesReturned = MessagesListed
        /\ EveryChatQueried
        /\ FailedChatsWarned

\* The number of messages on the requested page of n collected messages.
PageLength(n) ==
    LET skip == IF TruthyNum(args.options.skip) THEN Get(args.options.skip) ELSE 0
        top == IF TruthyNum(args.options.top) THEN Get(args.options.top) ELSE 50
    IN IF n <= skip THEN 0 ELSE Min(top, n - skip)

\* C7 amended: whatever chats fail, no exception escapes; the result holds
\* only messages of chats whose listing succeeded, each at most once, as many
\* as the page [skip, skip + top) of them holds (all of them when they fit);
\* every chat is queried and a warning is recorded per failed chat.
C7_PageOfListedMessages ==
    RecentLoopDone =>
        /\ Get(result).ok
        /\ MessagesReturned \subseteq MessagesListed
        /\ Cardinality(MessagesReturned) = Len(Get(result).value.value)
        /\ Len(Get(result).value.value) = PageLength(Cardinality(MessagesListed))
        /\ EveryChatQueried
        /\ FailedChatsWarned

\* C7 witness: a chat with messages succeeded, a later chat failed, and the
\* result is not empty.
C7_Witness ==
    /\ RecentLoopDone
    /\ \E i, j \in 1..Len(local.answers) :
            /\ i < j
            /\ local.answers[i].ok /\ Len(local.answers[i].body.value) > 0
            /\ ~local.answers[j].ok
    /\ Len(Get(result).value.value) > 0

\* ---------------------------------------------------------------- C8

IsCreateRequest(r) == r.method = "POST" /\ r.path = <<"chats">>

\* createChat of chatService.ts or the createChat handler has posted.
Posted ==
    /\ op \in {"createChat", "create-chat", "createChatHandler"}
    /\ Len(reqs) > 0
    /\ IsCreateRequest(reqs[Len(reqs)])

PostedMembers == Get(reqs[Len(reqs)].body).members

SuppliedIds ==
    IF op = "createChatHandler"
    THEN [i \in 1..Len(args.members) |-> args.members[i].id]
    ELSE local.userIds

\* The payload entry e stands for the user id.
EntryOf(e, id) ==
    e.bind = <<UsersUrl>> \o id \/ e.bind = <<UsersUrl>> \o encodeURIComponent(id)

\* C8: for a non-empty member list without the caller the posted payload has
\* len(members)+1 entries, the caller as owner first and then the supplied
\* members in order; when the caller is among the members no entry is added.
C8_CallerAddedOnce ==
    Posted =>
        LET caller == Get(local.me)
            ids == SuppliedIds
        IN IF \E i \in 1..Len(ids) : ids[i] = caller
           THEN /\ Len(PostedMembers) = Len(ids)
                /\ \A i \in 1..Len(ids) : EntryOf(PostedMembers[i], ids[i])
           ELSE /\ Len(PostedMembers) = Len(ids) + 1
                /\ EntryOf(PostedMembers[1], caller)
                /\ PostedMembers[1].roles = <<"owner">>
                /\ \A i \in 1..Len(ids) : EntryOf(PostedMembers[i + 1], ids[i])

\* ---------------------------------------------------------------- C9

ValidationMessages ==
    {"At least one member is required to create a chat",
     "Member ID is required",
     "access_token needed",
     "accessToken is required in ChatService configuration",
     "Authentication token not found. Please configure the AUTH_TOKEN environment variable in your MCP server configuration."}

\* The text of the failure the invocation ended with, if it ended with one.
FailureText ==
    IF IsNone(result) THEN <<>>
    ELSE IF ~Get(result).ok THEN Get(result).message
    ELSE IF op \in {"create-chat", "createChatHandler"} THEN Get(result).value.text
    ELSE <<>>

ValidationFailed ==
    \E k \in 1..Len(FailureText) : FailureText[k] \in ValidationMessages

\* C9: an invocation that ends in a validation failure has sent no Graph
\* request: no network call precedes a validation failure.
C9_ValidationBeforeNetwork == ValidationFailed => Len(reqs) = 0

\* --------------------------------------------------------------- C10

IsGetChat(r) == r.method = "GET" /\ Len(r.path) = 2 /\ r.path[1] = "chats"
IsSendRequest(r) ==
    r.method = "POST" /\ Len(r.path) = 3 /\ r.path[1] = "chats" /\ r.path[3] = "messages"
IsMeRequest(r) == r.method = "GET" /\ r.path = <<"me">>

CreateOps == {"createChat", "create-chat", "createChatHandler", "createChat_part006"}

Count(P(_)) == Cardinality({ i \in 1..Len(reqs) : P(reqs[i]) })

\* The invocation ended with a created chat.
Created ==
    /\ pc = "done"
    /\ Get(result).ok
    /\ op \in {"create-chat", "createChatHandler"} =>
            IF op = "create-chat" THEN IsSome(Get(result).value.metadata)
            ELSE ~Get(result).value.isError

\* sendMessage and a listing have sent exactly one request once started.
OneCallOperations ==
    /\ op = "sendMessage" => Len(reqs) = 1 /\ IsSendRequest(reqs[1])
    /\ op = "listChats" => Len(reqs) = 1 /\ IsChatListing(reqs[1])

RECURSIVE LookupsOwed(_)
LookupsOwed(members) ==
    IF Len(members) = 0 THEN <<>>
    ELSE (IF Len(Head(members).id) > 0 /\ \A k \in 1..Len(Head(members).id) :
                                                Head(members).id[k] # "@"
          THEN <<(<<"users">> \o Head(members).id)>> ELSE <<>>)
         \o LookupsOwed(Tail(members))

\* reqs is <<GET /me>>, then the owed lookups, then at most one POST /chats.
ServiceCreateCalls ==
    LET owed == LookupsOwed(local.chatData.members)
        n == Len(owed)
    IN /\ IsMeRequest(reqs[1])
       /\ Len(reqs) \in {1, 1 + n, 2 + n}
       /\ Len(reqs) > 1 =>
            /\ \A k \in 1..n : reqs[1 + k].method = "GET" /\ reqs[1 + k].path = owed[k]
            /\ Len(reqs) = 2 + n => IsCreateRequest(reqs[2 + n])

SameRequest(a, b) == a.method = b.method /\ a.path = b.path

IsUserLookup(r) == r.method = "GET" /\ Len(r.path) > 1 /\ r.path[1] = "users"

\* C11 as stated: within one invocation the same request (method and
\* resource) is sent at most once.
C11_NoRequestTwice ==
    \A i, j \in 1..Len(reqs) : i < j => ~SameRequest(reqs[i], reqs[j])

\* The supplied members of the running createChat that name the user of the
\* lookup r.
MembersLookedUp(r) ==
    { i \in 1..Len(local.chatData.members) :
        <<"users">> \o local.chatData.members[i].id = r.path }

\* C11 amended: no request is re-issued: a request is sent at most once in an
\* invocation, except that createChat of chatService.ts sends one GET
\* /users/{id} per supplied member, so an id supplied k times is looked up k
\* times and no more.
C11_NoRetry ==
    \A i \in 1..Len(reqs) :
        LET same == { j \in 1..Len(reqs) : SameRequest(reqs[i], reqs[j]) }
        IN IF op \in {"createChat", "create-chat"} /\ IsUserLookup(reqs[i])
           THEN Cardinality(same) <= Cardinality(MembersLookedUp(reqs[i]))
           ELSE Cardinality(same) = 1

\* C11 witness: requests of createChat or getRecentMessages failed and the
\* invocation went on: a warning is recorded and a later request was sent.
C11_Witness ==
    /\ op \in {"createChat", "getRecentMessages"}
    /\ Len(warnings) > 0
    /\ Len(reqs) >= 3
    /\ pc = "done"

\* --------------------------------------------------------------- C12

\* Graph answered the request of getChatMessages with a non-2xx status.
GraphRefused ==
    /\ op = "getChatMessages"
    /\ pc = "done"
    /\ Len(reqs) = 1
    /\ ~Get(local.response).ok

\* C12: when Graph answers with a non-2xx status, the failure raised to the
\* caller carries the remote status code, the remote error code and a
\* message, so that 401, 403, 404, 429 and other statuses can be told apart.
C12_FailureCarriesRemoteError ==
    GraphRefused =>
        /\ ~Get(result).ok
        /\ Len(Get(result).message) > 0
        /\ Get(result).statusCode = Get(local.response).statusCode
        /\ Get(result).code = Get(local.response).code

\* --------------------------------------------------------------- C13

ToolOps == {"list-chats", "list-messages", "create-chat"}

\* The tool invocation ended in a failure: thrown, or reported in its text.
ToolFailed ==
    /\ op \in ToolOps
    /\ pc = "done"
    /\ \/ ~Get(result).ok
       \/ op = "create-chat" /\ IsNone(Get(result).value.metadata)

\* C13: whenever list-chats, list-messages or create-chat fails, the handler
\* returns a tool response with a text; no exception escapes the handler.
C13_FailureIsToolResponse ==
    ToolFailed => Get(result).ok /\ Len(Get(result).value.text) > 0

\* --------------------------------------------------------------- C14

\* A listing that answers one Graph response has returned a collection.
SingleListingReturned ==
    /\ op \in {"listChats", "listChats_part006", "listChatsFetch", "getChatMessages",
               "list-messages", "list-chats"}
    /\ pc = "done"
    /\ Get(result).ok

\* The continuation link of the returned collection (of its metadata for a tool).
ReturnedNextLink ==
    IF op \in {"list-messages", "list-chats"} THEN Get(result).value.meta.nextLink
    ELSE Get(result).value.nextLink

\* getRecentMessages has returned a page.
RecentReturned == op = "getRecentMessages" /\ pc = "done" /\ Get(result).ok

\* Some Graph response of the invocation carried an @odata.nextLink.
GraphGaveNextLink ==
    \/ IsSome(Get(local.listing).body.nextLink)
    \/ \E i \in ChatsListed : IsSome(local.answers[i].body.nextLink)

\* C14: the continuation link a listing returns is the @odata.nextLink of the
\* Graph response, unchanged, and is absent when the Graph response has none.
C14_NextLinkIsGraphs ==
    /\ SingleListingReturned => ReturnedNextLink = Get(local.response).body.nextLink
    /\ RecentReturned => (IsSome(Get(result).value.nextLink) => GraphGaveNextLink)

\* --------------------------------------------------------------- C15

\* The Graph requests of the invocation that are sent and not yet answered.
InFlight ==
    IF pc \in {"idle", "done"} THEN 0
    ELSE IF pc = "createChat:users" THEN Cardinality(local.pending)
    ELSE 1

\* C15: within one invocation at most one Graph request is in flight at any
\* time (no fan-out), the member lookups of createChat included.
C15_OneRequestInFlight == InFlight <= 1

\* --------------------------------------------------------------- C16

\* C16: every Graph request made for a call carries the token that came with
\* that call's own request, under any interleaving of concurrent requests.
C16_OwnToken ==
    op = "fetch" =>
        \A k \in 1..Len(reqs) : reqs[k].bearer = local.calls[reqs[k].call].token

\* --------------------------------------------------------------- C17

\* Graph answered a listing successfully.
GraphAnswered ==
    /\ op \in {"getChatMessages", "list-messages", "listChats", "list-chats"}
    /\ pc = "done"
    /\ Len(reqs) = 1
    /\ Get(local.response).ok

\* C17: normalizing a successful Graph response never fails because an
\* optional field (the value array included) is absent.
C17_AbsentFieldsDefaulted == GraphAnswered => Get(result).ok

\* --------------------------------------------------------------- C18

\* A REST endpoint was requested with its own method and without an
\* 'Authorization: Bearer <token>' header.
RestMethod ==
    IF op \in {"handleCreateChat", "handleSendMessage"} THEN "POST" ELSE "GET"

NoBearerRequest ==
    /\ op \in {"handleCreateChat", "handleSendMessage", "handleGetMessages", "handleListChats"}
    /\ (op # "handleListChats" => args.method = RestMethod)
    /\ ~IsBearer(args.authorization)

\* C18: a request without a bearer token is answered 401 and no Graph call is
\* made, whatever its body or query string is.
C18_NoBearerIs401 ==
    NoBearerRequest => Len(reqs) = 0 /\ pc = "done" /\ Get(result).value.status = 401

\* --------------------------------------------------------------- C19

\* createChat has sent POST /chats for the supplied members.
CreatePosted ==
    /\ op \in {"createChat", "createChat_part006"}
    /\ \E k \in 1..Len(reqs) : IsCreateRequest(reqs[k])

CreatePayload ==
    Get(reqs[CHOOSE k \in 1..Len(reqs) : IsCreateRequest(reqs[k])].body).members

\* The payload entry of the i-th supplied member (the caller may be put first).
RolesSent(i) ==
    CreatePayload[Len(CreatePayload) - Len(args.chatData.members) + i].roles

\* C19: every posted entry of a supplied member has a non-empty roles list:
\* the supplied roles when they are non-empty, otherwise the default ["owner"].
C19_RolesDefaultOwner ==
    CreatePosted =>
        \A i \in 1..Len(args.chatData.members) :
            /\ Len(RolesSent(i)) > 0
            /\ RolesSent(i) = IF TruthyStr(args.chatData.members[i].roles)
                              THEN Get(args.chatData.members[i].roles)
                              ELSE <<"owner">>

\* --------------------------------------------------------------- C20

\* getChatMessages (called directly or by list-messages) has sent its request.
MessagesRequested == op \in {"getChatMessages", "list-messages"} /\ Len(reqs) = 1

\* list-chats has sent its request.
ChatsRequested == op = "list-chats" /\ Len(reqs) = 1

\* The elements of a non-empty array with a comma between neighbours.
RECURSIVE CommaJoined(_)
CommaJoined(a) ==
    IF Len(a) = 1 THEN a ELSE <<Head(a), ",">> \o CommaJoined(Tail(a))

\* The array the handler must send: the supplied one unless absent or empty.
Sent(array, default) ==
    IF IsSome(array) /\ Len(Get(array)) > 0 THEN Get(array) ELSE default

\* C20: a getChatMessages request carries one $orderby, the caller's (non-empty)
\* orderBy or else 'createdDateTime desc'; list-chats sends orderby joined by
\* commas, and for orderby, select and expand the supplied non-empty array
\* unchanged or else the handler's default.
C20_OrderByAndDefaults ==
    /\ MessagesRequested =>
            reqs[1].query.orderby = IF IsSome(args.options.orderBy)
                                       /\ Len(Get(args.options.orderBy)) > 0
                                    THEN args.options.orderBy
                                    ELSE Some(<<"createdDateTime desc">>)
    /\ ChatsRequested =>
            /\ reqs[1].query.orderby = Some(CommaJoined(Sent(args.orderby,
                    <<"lastMessagePreview/createdDateTime desc">>)))
            /\ reqs[1].query.select = Some(Sent(args.select, DefaultChatSelect))
            /\ reqs[1].query.expand = Some(Sent(args.expand, <<"members">>))

\* C20 witness: list-chats was called with a two-element orderby and an empty
\* select, and Graph has answered.
C20_Witness ==
    /\ ChatsRequested
    /\ pc = "done"
    /\ Get(result).ok
    /\ args.orderby = Some(<<"a", "b">>)
    /\ args.select = Some(<<>>)

\* --------------------------------------------------------------- C21

\* C21: no listing modifies the options its caller passed: list-chats leaves
\* the args it received as they were, and from the call of any listing until
\* it has returned or failed the caller's options keep their value.
C21_OptionsUntouched ==
    /\ [](op = "list-chats" => args = local.received)
    /\ [][(pc # "idle" /\ pc' # "idle") => args' = args]_vars

\* C21 witness: list-chats has logged its redacted arguments, was given
\* arrays, and has returned.
C21_Witness ==
    /\ op = "list-chats"
    /\ pc = "done"
    /\ Get(result).ok
    /\ local.logged.accessToken = Redacted
    /\ args.orderby = Some(<<"a">>)

\* --------------------------------------------------------------- C22

\* The messages Graph returned for the successfully listed chats, by position.
ListedPositions ==
    UNION { { <<i, k>> : k \in 1..Len(local.answers[i].body.value) } : i \in ChatsListed }

TimeAt(p) == local.answers[p[1]].body.value[p[2]].createdDateTime

NewerThan(t) == Cardinality({ p \in ListedPositions : TimeAt(p) > t })
NotOlderThan(t) == Cardinality({ p \in ListedPositions : TimeAt(p) >= t })

\* C22: getRecentMessages returns positions [skip, skip+top) of the collected
\* messages in newest-first order: at most top entries, in non-increasing
\* createdDateTime order, and a continuation link exactly when more than
\* skip+top messages were collected.
C22_SortedPage ==
    RecentReturned =>
        LET page == Get(result).value.value
            skip == IF TruthyNum(args.options.skip) THEN Get(args.options.skip) ELSE 0
            top == IF TruthyNum(args.options.top) THEN Get(args.options.top) ELSE 50
        IN /\ Len(page) <= top
           /\ Len(page) = PageLength(Cardinality(ListedPositions))
           /\ \A i \in 1..Len(page) :
                /\ i < Len(page) => page[i].createdDateTime >= page[i + 1].createdDateTime
                /\ NewerThan(page[i].createdDateTime) <= skip + i - 1
                /\ NotOlderThan(page[i].createdDateTime) >= skip + i
           /\ IsSome(Get(result).value.nextLink) <=> Cardinality(ListedPositions) > skip + top

\* C22 witness: a page of two messages of different chats, the newer first,
\* with more messages left.
C22_Witness ==
    /\ RecentReturned
    /\ Len(Get(result).value.value) = 2
    /\ Get(result).value.value[1].chatId # Get(result).value.value[2].chatId
    /\ Get(result).value.value[1].createdDateTime > Get(result).value.value[2].createdDateTime
    /\ IsSome(Get(result).value.nextLink)

\* --------------------------------------------------------------- C23

\* listChats (either ChatService) has sent its request to /me/chats.
ChatsListingSent ==
    /\ op \in {"listChats", "listChats_part006"}
    /\ Len(reqs) = 1
    /\ IsChatListing(reqs[1])

\* The $top the same listChats sends for the same options without skip.
TopWithoutSkip ==
    LET options == [args.options EXCEPT !.skip = None]
    IN IF op = "listChats" THEN listChatsRequest(options).query.top
       ELSE listChatsRequest_part006(options).query.top

\* C23: listChats surfaces a warning whenever skip > 0, and the $top it sends
\* depends only on the top option, never on skip.
C23_SkipWarnedNotApplied ==
    ChatsListingSent =>
        /\ TruthyNum(args.options.skip) =>
                \E k \in 1..Len(warnings) : warnings[k] = SkipWarning
        /\ reqs[1].query.top = TopWithoutSkip

\* --------------------------------------------------------------- C24

\* The SSE connections that were opened and have not closed.
OpenConns == { c \in 1..Len(local.conns) : local.conns[c].open }

\* C24: the registry holds exactly the open SSE connections, each under its
\* own id, and every connection was written each broadcast made while it
\* was open.
C24_RegistryIsOpenConnections ==
    op = "SseServer" =>
        /\ mapValues(local.clients) = OpenConns
        /\ Len(local.clients) = Cardinality(OpenConns)
        /\ \A k \in 1..Len(local.clients) :
                local.clients[k].id = local.conns[local.clients[k].res].id
        /\ \A c \in 1..Len(local.conns) : local.conns[c].written = local.conns[c].due

\* --------------------------------------------------------------- C25

\* C25: in broadcast a failing write to one client does not prevent delivery
\* to the other registered clients, and a client to which the write failed
\* is not in the registry when broadcast returns.
C25_FailedClientDropped ==
    op = "SseServer" =>
        /\ local.targets \ local.failed \subseteq local.delivered
        /\ local.failed \cap mapValues(local.clients) = {}

\* --------------------------------------------------------------- C26

\* Graph has rejected the POST /chats of the REST handler.
CreateRejected ==
    /\ op = "handleCreateChat"
    /\ pc = "done"
    /\ Len(reqs) > 0
    /\ IsSome(local.answer)
    /\ ~Get(local.answer).ok

\* The REST handler got a parsable body that fails the schema.
SchemaFailed ==
    /\ op = "handleCreateChat"
    /\ args.method = "POST"
    /\ IsSome(args.body.json)
    /\ IsBearer(args.authorization)
    /\ ~validChatData(Get(args.body.json))

\* C26: when Graph rejects the creation with status S the REST handler
\* answers with S; it answers 400 for a schema-validation failure.
C26_RemoteStatusForwarded ==
    /\ CreateRejected =>
            Get(result).value.status = Get(Get(local.answer).statusCode)
    /\ SchemaFailed => Get(result).value.status = 400

\* --------------------------------------------------------------- C27

\* The posted entries bound to the caller.
CallerEntries ==
    { i \in 1..Len(PostedMembers) :
EntryOf(PostedMembers[i], Get(local.me)) }

\* C27: the member list posted to /chats has no two entries bound to the same
\* user, and the caller appears in it exactly once.
C27_NoDuplicateMember ==
    Posted =>
        /\ \A i, j \in 1..Len(PostedMembers) :
                i < j => PostedMembers[i].bind # PostedMembers[j].bind
        /\ Cardinality(CallerEntries) = 1

\* --------------------------------------------------------------- C28

\* A log statement has run for a token.
TokenLogged == op \in LogSites /\ pc = "done" /\ Len(args.accessToken) > 0

\* C28: the caller's complete bearer token never appears in log output, for
\* a token of any length.
C28_TokenNeverLogged ==
    TokenLogged => ~includes(Get(result).value, args.accessToken)

\* --------------------------------------------------------------- C29

\* Graph has answered the POST /chats of createChat successfully.
CreateAnswered ==
    \/ op = "createChat" /\ Len(reqs) > 0 /\ IsSome(local.answer) /\ Get(local.answer).ok
    \/ op = "createChat_part006" /\ IsSome(local.chatResponse)

\* The body of that answer.
CreateAnswer ==
    IF op = "createChat" THEN Get(local.answer).body ELSE Get(local.chatResponse)

\* C29: createChat returns a Chat only if the POST /chats response carries an
\* id, and the returned id equals it; a response without an id makes
\* createChat fail and causes no further Graph request.
C29_IdFromCreateResponse ==
    CreateAnswered =>
        IF IsSome(CreateAnswer.id)
        THEN (pc = "done" /\ Get(result).ok) => Get(result).value.id = Get(CreateAnswer.id)
        ELSE /\ IsCreateRequest(reqs[Len(reqs)])
             /\ pc = "done" => ~Get(result).ok

\* --------------------------------------------------------------- C30

\* The members whose GET /users/{id} failed.
LookupsFailed ==
    { i \in 1..Len(local.lookups) : IsSome(local.lookups[i]) /\ ~Get(local.lookups[i]).ok }

\* The members whose GET /users/{id} returned a user with a UPN.
LookupsResolved ==
    { i \in 1..Len(local.lookups) :
        /\ IsSome(local.lookups[i])
        /\ Get(local.lookups[i]).ok
        /\ TruthyStr(Get(local.lookups[i]).body.userPrincipalName) }

\* A member lookup of createChat (chatService.ts) has failed.
SomeLookupFailed ==
    /\ op \in {"createChat", "create-chat"}
    /\ Len(reqs) > 0
    /\ LookupsFailed # {}

\* C30: a failed /users/{id} lookup never fails createChat: that member keeps
\* the id as supplied, the other lookups take effect as usual, and once all
\* lookups are answered POST /chats is issued with these ids.
C30_FailedLookupKeepsId ==
    SomeLookupFailed =>
        /\ \A i \in LookupsFailed : local.userIds[i] = local.chatData.members[i].id
        /\ \A i \in LookupsResolved :
                local.userIds[i] = Get(Get(local.lookups[i]).body.userPrincipalName)
        /\ local.pending = {} =>
                /\ \E k \in 1..Len(reqs) : IsCreateRequest(reqs[k])
                /\ \A i \in 1..Len(local.userIds) :
                        EntryOf(local.members[Len(local.members) - Len(local.userIds) + i],
                                local.userIds[i])

\* C30 witness: of two looked-up members one lookup failed and the other
\* returned a UPN, and the chat was created.
C30_Witness ==
    /\ SomeLookupFailed
    /\ LookupsResolved # {}
    /\ pc = "done"
    /\ Get(result).ok

====
